---- MODULE Spec2Model ----
(***************************************************************************)
(* Model of the Electrum indexer client of btc-portfolio-realtime:         *)
(*   - ElectrumConnection (routes/api/balance/+server.ts and               *)
(*     routes/api/history/+server.ts): id-correlated JSON-RPC over a       *)
(*     socket, one timer per request;                                      *)
(*   - the two POST handlers that drive it: the balance summary and the    *)
(*     history reconstruction, with their batched fan-outs;                *)
(*   - the page (routes/+page.svelte, lib/services/xpub.ts): the address   *)
(*     derivation and the two requests it posts to the handlers.           *)
(*                                                                         *)
(* One TLA+ action is one turn of the Node.js event loop: a socket event   *)
(* or a timer callback together with every promise continuation it        *)
(* releases (microtasks run to completion before the next event).          *)
(***************************************************************************)
EXTENDS Integers, Sequences, FiniteSets, TLC

(***************************************************************************)
(* Bounds of the model.                                                    *)
(***************************************************************************)
\* Largest number of script hashes in a request body.
MaxItems == 4

\* const batchSize = 20 in both handlers.  The handlers are modelled for an
\* arbitrary batch size and checked with this reduced value, so that a
\* request of MaxItems script hashes spans several chunks.
batchSize == 2

\* Largest number of responses that are still under way when their request
\* times out (and so arrive late); the other timed-out requests are never
\* answered.
MaxLate == 1

(***************************************************************************)
(* Generic helpers.                                                        *)
(***************************************************************************)
Min(S) == CHOOSE x \in S : \A y \in S : x <= y

Range(s) == { s[k] : k \in 1..Len(s) }

\* Array.prototype.slice(from, to) with 0-based, end-exclusive indices.
Slice(s, from, to) ==
    LET hi == IF to < Len(s) THEN to ELSE Len(s)
    IN  IF from >= hi THEN <<>> ELSE [k \in 1..(hi - from) |-> s[from + k]]

\* Restriction of a function (Map.delete / Map.clear).
Without(f, S) == [x \in (DOMAIN f) \ S |-> f[x]]

\* Map.set on a function.
With(f, k, v) == (k :> v) @@ f

(***************************************************************************)
(* The indexer's data: what a well-behaved server answers.                 *)
(***************************************************************************)
\* computeScriptHash: SHA-256 of the output script, byte-reversed, as hex.
\* Scripts are numbered; the hash is modelled as an injective map into a
\* range disjoint from the scripts.
computeScriptHash(script) == 100 + script

\* Transaction ids are byte strings; two bytes are enough to tell a txid from
\* its byte-reversed form (bitcoinjs keeps vin.hash in internal byte order).
T1 == <<0, 1>>
T2 == <<0, 2>>
T3 == <<0, 3>>
T6 == <<0, 6>>
T7 == <<0, 8>>
X1 == <<0, 7>>

Reverse(bytes) == [k \in 1..Len(bytes) |-> bytes[Len(bytes) + 1 - k]]

ZeroHash == <<0, 0>>

\* The decoded form of the raw transactions the server knows.  Output
\* scripts 1, 2, ... hash to the script hashes of the request, script 9 is
\* somebody else's.
\*   T1 (height 1): coinbase paying 625,000,000 to script 2.
\*   T2 (height 2): spends T1:0, pays 5,000 to script 2 and 300,000,000 to
\*                  script 1.
\*   T3 (height 2): spends T2:0 (script 2, 5,000) and X1:0 (not ours), names
\*                  a prevout X1:3 that does not exist, pays 3,000 to
\*                  script 2.
\*   X1           : a transaction outside the histories of our scripts.
\*   T6, T7       : unconfirmed payments of 50 to script 1 and 70 to
\*                  script 3 (never fetched: they are not confirmed).
ChainTx(txid) ==
    IF txid = T1 THEN
        [ins  |-> << [hash |-> ZeroHash, index |-> 65535] >>,
         outs |-> << [value |-> 625000000, script |-> 2] >>]
    ELSE IF txid = T2 THEN
        [ins  |-> << [hash |-> Reverse(T1), index |-> 0] >>,
         outs |-> << [value |-> 5000, script |-> 2],
                     [value |-> 300000000, script |-> 1],
                     [value |-> 324995000, script |-> 9] >>]
    ELSE IF txid = T3 THEN
        [ins  |-> << [hash |-> Reverse(T2), index |-> 0],
                     [hash |-> Reverse(X1), index |-> 0],
                     [hash |-> Reverse(X1), index |-> 3] >>,
         outs |-> << [value |-> 3000, script |-> 2],
                     [value |-> 9000, script |-> 9] >>]
    ELSE \* X1
        [ins  |-> << [hash |-> Reverse(<<9, 9>>), index |-> 1] >>,
         outs |-> << [value |-> 8000, script |-> 9] >>]

\* blockchain.scripthash.get_history: each list in the server's order
\* (by height, mempool entries with height <= 0); the first script hash
\* was first used after the second one.
ServerHistory(sh) ==
    IF sh = 101 THEN << [tx_hash |-> T6, height |-> 0],
                        [tx_hash |-> T2, height |-> 2] >>
    ELSE IF sh = 102 THEN << [tx_hash |-> T1, height |-> 1],
                             [tx_hash |-> T3, height |-> 2],
                             [tx_hash |-> T2, height |-> 2] >>
    ELSE IF sh = 103 THEN << [tx_hash |-> T7, height |-> -1] >>
    ELSE <<>>

\* blockchain.scripthash.get_balance
ServerBalance(sh) ==
    IF sh = 101 THEN [confirmed |-> 300000000, unconfirmed |-> 50]
    ELSE IF sh = 102 THEN [confirmed |-> 3000, unconfirmed |-> 0]
    ELSE IF sh = 103 THEN [confirmed |-> 0, unconfirmed |-> 70]
    ELSE [confirmed |-> 0, unconfirmed |-> 0]

\* Block time of a height.
BlockTime(height) == 1231006505 + 600 * height

\* blockchain.block.header: 80 bytes, the timestamp in bytes 68..71
\* (0-based), little-endian.
ServerHeader(height) ==
    LET ts == BlockTime(height)
    IN  [k \in 1..80 |->
            IF k = 69 THEN ts % 256
            ELSE IF k = 70 THEN (ts \div 256) % 256
            ELSE IF k = 71 THEN (ts \div 65536) % 256
            ELSE IF k = 72 THEN (ts \div 16777216) % 256
            ELSE 0]

\* The result the server computes for a request.
ServerResult(req) ==
    IF req.method = "server.version" THEN <<"ElectrumX", "1.4">>
    ELSE IF req.method = "blockchain.scripthash.get_balance"
         THEN ServerBalance(req.params)
    ELSE IF req.method = "blockchain.scripthash.get_history"
         THEN ServerHistory(req.params)
    ELSE IF req.method = "blockchain.block.header"
         THEN ServerHeader(req.params)
    ELSE ChainTx(req.params)

(***************************************************************************)
(* State.                                                                  *)
(***************************************************************************)
VARIABLES
    \* ---- the page (routes/+page.svelte)
    xpubInput,        \* the text of the input field (0: empty)
    addressCount,     \* addresses to derive per chain
    derivedAddresses, \* the DerivedAddress records of connectAndLoad
    request,          \* the last HTTP request sent to the server: [url, body]
    \* ---- the request body and the handler's position
    op,               \* "balance" or "history": which POST handler runs
    scriptHashes,     \* body.scriptHashes
    pc,               \* "page", "connected", "start", "connect", "handshake",
                      \* "fanout", "delay", "done"
    phase,            \* the fan-out the handler is in
    items,            \* phase -> the array the fan-out's loop walks
    i,                \* the loop variable of the current batch loop
    status,           \* HTTP status of the response (0: none yet)
    body,             \* the response body
    \* ---- ElectrumConnection
    socket,           \* "connecting", "open", "errored", "ended", "destroyed"
    requestId,
    pendingRequests,  \* id -> the caller whose promise the entry settles
    timers,           \* id -> the caller whose promise the timer rejects
    \* ---- the wire and the server
    sent,             \* id -> the request handed to socket.write
    unanswered,       \* ids the server has received and may still answer
    \* ---- the promises not yet consumed by an await
    \*      (callers are <<phase, k>>: item k of a fan-out)
    outcome,          \* caller -> "pending", "result", "rpcerror", "timeout", "connerror"
    rid,              \* caller -> the id its request was given
    got,              \* caller -> the id of the response that settled it (0: none)
    worker,           \* caller -> the worker's promise: "running", "returned", "thrown"
    ret,              \* caller -> the value the worker returned
    results,          \* phase -> what the awaits of Promise.all have yielded
    \* ---- the handlers' locals
    addressBalances,
    allHistoryItems,
    heightToTimestamp,
    txDetails,
    txCache,
    prevoutRefs,
    prevoutTxCache,
    \* ---- bookkeeping of the batch loops
    chunkLog,         \* phase -> the sizes of the slices taken so far
    delayLog,         \* phase -> the number of inter-batch delays taken
    errInFlight,      \* a socket error hit while worker RPCs were pending
    console,          \* the lines the history handler has written to the console
    buffer,           \* ElectrumConnection.buffer: the received text after the last newline
    received,         \* StreamSpec: the chunk the 'data' handler ran on in the last turn
    fired,            \* the id whose request timer ran in the last turn (0: none)
    \* ---- share links
    clock,            \* Date.now()
    shareStore,       \* the records of the share store, in insertion order
    created,          \* the last call of createShareRecord: its ttlMs and outcome
    returned,         \* the last call of getShareRecord: its result and the time read
    shareRequest,     \* the request to the share routes awaiting its handler
    shareResponse,    \* the response awaiting the page
    sharePc,          \* the sharing page: "idle", "posting", "linked"
    shareKey,         \* the key createShareLink holds across its fetch
    shareLink,        \* the link the sharing page shows
    openPc,           \* the opening browser: "closed", "navigating", "fetching", "opened", "failed"
    location,         \* its window.location
    sessionStorage,   \* its 'btc-tracker-shared-load' item
    \* ---- ElectrumClient (the WebSocket client of $lib/services/electrum)
    clientWs,         \* this.ws: "null" or "socket"
    clientSocket,     \* the WebSocket: "none", "connecting", "open", "failed",
                      \* "closing", "closed"
    clientRequestId,  \* this.requestId
    clientPending,    \* the ids of this.pendingRequests
    clientTimers,     \* the ids whose request timer is set
    clientCalls,      \* id -> the promise of the call: "pending", "result",
                      \* "rpcerror", "timeout", "closed"
    clientRefused,    \* the calls that threw 'WebSocket not connected'
    clientWire,       \* the ids the server has received and may still answer
    \* ---- KrakenPriceService (the singleton price feed)
    feedWs,           \* this.ws: 0 (null) or the number of a WebSocket
    feedSockets,      \* the WebSockets made so far, in order: "connecting",
                      \* "open", "failing" (close() was called before it
                      \* opened: 'error' and 'close' are due), "closing"
                      \* (close() was called on the open socket: 'close' is
                      \* due), "closed"
    isConnecting,     \* this.isConnecting
    reconnectTimeout, \* this.reconnectTimeout: whether the 3 s timer is set
    rateRefreshInterval,   \* this.rateRefreshInterval: 0 (null) or an interval
    liveRateIntervals,     \* the rate-refresh intervals set and not cleared
    callbacks,        \* the length of this.callbacks
    feedStopped,      \* disconnect() has returned and the page has not
                      \* called connect() since
    \* ---- the page and the price feed (routes/+page.svelte)
    isConnected,
    isLoading,
    pagePc,           \* connectAndLoad: "idle", "balance" (awaiting
                      \* fetchBalance), "feed" (awaiting krakenService.connect)
    pageAwait,        \* the WebSocket whose connect() promise it awaits
    hasScriptHashes,  \* scriptHashes.length > 0
    btcBalance,
    pageBalances,     \* addressBalances of the page
    historyData,
    refreshInterval,  \* 0 (null) or an interval
    liveRefreshIntervals,  \* the balance-refresh intervals set and not cleared
    unsubscribePrice, \* whether unsubscribePrice holds a function
    balanceFetches,   \* the fetchBalance calls of the interval in flight
    historyFetches,   \* the fetchHistory calls in flight
    runs,             \* the calls of connectAndLoad so far
    disconnected      \* disconnect() has run and connectAndLoad has not
                      \* been called since

baseVars == << xpubInput, addressCount, derivedAddresses, request,
           op, scriptHashes, pc, phase, items, i, status, body,
           socket, requestId, pendingRequests, timers,
           sent, unanswered,
           outcome, rid, got, worker, ret, results,
           addressBalances, allHistoryItems, heightToTimestamp, txDetails,
           txCache, prevoutRefs, prevoutTxCache,
           chunkLog, delayLog, errInFlight, console, buffer, received,
           fired >>

shareVars == << clock, shareStore, created, returned, shareRequest,
                shareResponse, sharePc, shareKey, shareLink, openPc, location,
                sessionStorage >>

clientVars == << clientWs, clientSocket, clientRequestId, clientPending,
                 clientTimers, clientCalls, clientRefused, clientWire >>

feedVars == << feedWs, feedSockets, isConnecting, reconnectTimeout,
               rateRefreshInterval, liveRateIntervals, callbacks, feedStopped >>

pageVars == << isConnected, isLoading, pagePc, pageAwait, hasScriptHashes,
               btcBalance, pageBalances, historyData, refreshInterval,
               liveRefreshIntervals, unsubscribePrice, balanceFetches,
               historyFetches, runs, disconnected >>

vars == << baseVars, shareVars, clientVars, feedVars, pageVars >>

\* The state as one record, so that the steps of one event-loop turn compose.
Cur ==
    [ xpubInput |-> xpubInput, addressCount |-> addressCount,
      derivedAddresses |-> derivedAddresses, request |-> request,
      op |-> op, scriptHashes |-> scriptHashes, pc |-> pc, phase |-> phase,
      items |-> items, i |-> i, status |-> status, body |-> body,
      socket |-> socket, requestId |-> requestId,
      pendingRequests |-> pendingRequests, timers |-> timers,
      sent |-> sent, unanswered |-> unanswered,
      outcome |-> outcome, rid |-> rid, got |-> got,
      worker |-> worker, ret |-> ret, results |-> results,
      addressBalances |-> addressBalances,
      allHistoryItems |-> allHistoryItems,
      heightToTimestamp |-> heightToTimestamp, txDetails |-> txDetails,
      txCache |-> txCache, prevoutRefs |-> prevoutRefs,
      prevoutTxCache |-> prevoutTxCache,
      chunkLog |-> chunkLog, delayLog |-> delayLog,
      errInFlight |-> errInFlight, console |-> console, buffer |-> buffer ]

Becomes(m) ==
    /\ xpubInput' = m.xpubInput /\ addressCount' = m.addressCount
    /\ derivedAddresses' = m.derivedAddresses /\ request' = m.request
    /\ op' = m.op /\ scriptHashes' = m.scriptHashes /\ pc' = m.pc
    /\ phase' = m.phase /\ items' = m.items /\ i' = m.i
    /\ status' = m.status /\ body' = m.body
    /\ socket' = m.socket /\ requestId' = m.requestId
    /\ pendingRequests' = m.pendingRequests /\ timers' = m.timers
    /\ sent' = m.sent /\ unanswered' = m.unanswered
    /\ outcome' = m.outcome /\ rid' = m.rid /\ got' = m.got
    /\ worker' = m.worker /\ ret' = m.ret /\ results' = m.results
    /\ addressBalances' = m.addressBalances
    /\ allHistoryItems' = m.allHistoryItems
    /\ heightToTimestamp' = m.heightToTimestamp /\ txDetails' = m.txDetails
    /\ txCache' = m.txCache /\ prevoutRefs' = m.prevoutRefs
    /\ prevoutTxCache' = m.prevoutTxCache
    /\ chunkLog' = m.chunkLog /\ delayLog' = m.delayLog
    /\ errInFlight' = m.errInFlight /\ console' = m.console
    /\ buffer' = m.buffer
    /\ UNCHANGED << shareVars, clientVars, feedVars, pageVars >>

(***************************************************************************)
(* Callers.  A caller is the promise returned by one connection.request:   *)
(* the handshake, or item k of a fan-out.                                  *)
(***************************************************************************)
HS == <<"version", 1>>

EmptyMap == [x \in {} |-> 0]

Method(ph) ==
    IF ph = "version" THEN "server.version"
    ELSE IF ph = "balance" THEN "blockchain.scripthash.get_balance"
    ELSE IF ph = "history" THEN "blockchain.scripthash.get_history"
    ELSE IF ph = "header" THEN "blockchain.block.header"
    ELSE "blockchain.transaction.get"

(***************************************************************************)
(* The workers of the fan-outs: what the async arrow function handed to    *)
(* batch.map returns once its request is settled.                          *)
(***************************************************************************)
\* parseInt(headerHex.substring(136, 144).match(/../g).reverse().join(''), 16)
ParseTimestamp(header) ==
    header[72] * 16777216 + header[71] * 65536 + header[70] * 256 + header[69]

\* WorkerTry of the balance worker reporting the confirmed amount alone as
\* the balance of the script hash.
WorkerTry_confirmedOnly(ph, item, value) ==
    IF ph = "balance" THEN
        [scriptHash |-> item,
         balance |-> value.confirmed,
         confirmed |-> value.confirmed,
         unconfirmed |-> value.unconfirmed]
    ELSE IF ph = "history" THEN [scriptHash |-> item, history |-> value]
    ELSE IF ph = "header" THEN
        [height |-> item, timestamp |-> ParseTimestamp(value)]
    ELSE [txHash |-> item, tx |-> <<value>>]

\* The try branch of a worker: the request resolved with value.
WorkerTry(ph, item, value) ==
    IF ph = "balance" THEN
        [scriptHash |-> item,
         balance |-> value.confirmed + value.unconfirmed,
         confirmed |-> value.confirmed,
         unconfirmed |-> value.unconfirmed]
    ELSE IF ph = "history" THEN [scriptHash |-> item, history |-> value]
    ELSE IF ph = "header" THEN
        [height |-> item, timestamp |-> ParseTimestamp(value)]
    ELSE [txHash |-> item, tx |-> <<value>>]

\* WorkerCatch without the catch: the rejection escapes the worker.
WorkerCatch_rethrow(ph, item) ==
    [thrown |-> TRUE, value |-> <<>>]

\* WorkerCatch of the balance worker reporting an unknown balance (-1)
\* instead of zero for the script hash whose request failed.
WorkerCatch_unknown(ph, item) ==
    [thrown |-> FALSE,
     value |->
        IF ph = "balance" THEN
            [scriptHash |-> item, balance |-> -1, confirmed |-> -1,
             unconfirmed |-> -1]
        ELSE IF ph = "history" THEN [scriptHash |-> item, history |-> <<>>]
        ELSE IF ph = "header" THEN [height |-> item, timestamp |-> 0]
        ELSE [txHash |-> item, tx |-> <<>>]]

\* The catch branch of a worker: the request was rejected.  The worker
\* returns a degraded value, it does not rethrow.
WorkerCatch(ph, item) ==
    [thrown |-> FALSE,
     value |->
        IF ph = "balance" THEN
            [scriptHash |-> item, balance |-> 0, confirmed |-> 0,
             unconfirmed |-> 0]
        ELSE IF ph = "history" THEN [scriptHash |-> item, history |-> <<>>]
        ELSE IF ph = "header" THEN [height |-> item, timestamp |-> 0]
        ELSE [txHash |-> item, tx |-> <<>>]]

\* console.log / console.error of the data handler and of steps 3 to 5 of
\* the history handler: the source line of the call, the txid it prints
\* (ZeroHash: none) and the count it prints (0: none).  The console is kept
\* as the set of its lines.
Log(m, line, txHash, n) ==
    IF m.op = "history"
    THEN [m EXCEPT !.console = @ \cup {[line |-> line, txHash |-> txHash, n |-> n]}]
    ELSE m

\* What the catch branch of a worker writes: the transaction worker of
\* step 3 logs the txid, the previous-transaction worker of step 4 has an
\* empty catch.
WorkerLog(m, ph, item) ==
    IF ph = "tx" THEN Log(m, 250, item, 0) ELSE m

\* The continuation of a worker after its await.
WorkerDone(m, c, how, value) ==
    LET item == m.items[c[1]][c[2]]
        r == IF how = "result"
             THEN [thrown |-> FALSE, value |-> WorkerTry(c[1], item, value)]
             ELSE WorkerCatch(c[1], item)
        m1 == IF how = "result" THEN m ELSE WorkerLog(m, c[1], item)
    IN  IF r.thrown
        THEN [m1 EXCEPT !.worker = With(@, c, "thrown")]
        ELSE [m1 EXCEPT !.worker = With(@, c, "returned"),
                        !.ret = With(@, c, r.value)]

(***************************************************************************)
(* ElectrumConnection.                                                     *)
(***************************************************************************)
\* resolve / reject of the promise of caller c (a settled promise ignores
\* further calls), followed by the continuation of whoever awaits it.
Settle(m, c, how, value, respId) ==
    IF m.outcome[c] # "pending" THEN m
    ELSE
        LET m1 == [m EXCEPT !.outcome = With(@, c, how),
                            !.got = With(@, c, respId)]
        IN  IF c = HS THEN m1 ELSE WorkerDone(m1, c, how, value)

\* Request taking its id from the size of the pending map instead of the
\* counter: an id is given out again once earlier requests have settled.
Request_pendingCount(m, c, params) ==
    LET id == Cardinality(DOMAIN m.pendingRequests) + 1
    IN  [m EXCEPT
            !.requestId = id,
            !.timers = With(@, id, c),
            !.pendingRequests = With(@, id, c),
            !.sent = With(@, id, [id |-> id, method |-> Method(c[1]),
                                  params |-> params]),
            !.unanswered = IF m.socket = "open" THEN @ \cup {id} ELSE @,
            !.outcome = With(@, c, "pending"),
            !.rid = With(@, c, id),
            !.got = With(@, c, 0),
            !.worker = With(@, c, "running")]

\* Request without its 15 s timer: only a response or a socket error settles
\* the call.
Request_noTimer(m, c, params) ==
    LET id == m.requestId + 1
    IN  [m EXCEPT
            !.requestId = id,
            !.pendingRequests = With(@, id, c),
            !.sent = With(@, id, [id |-> id, method |-> Method(c[1]),
                                  params |-> params]),
            !.unanswered = IF m.socket = "open" THEN @ \cup {id} ELSE @,
            !.outcome = With(@, c, "pending"),
            !.rid = With(@, c, id),
            !.got = With(@, c, 0),
            !.worker = With(@, c, "running")]

\* connection.request(method, params) issued by caller c.
Request(m, c, params) ==
    LET id == m.requestId + 1
    IN  [m EXCEPT
            !.requestId = id,
            !.timers = With(@, id, c),
            !.pendingRequests = With(@, id, c),
            !.sent = With(@, id, [id |-> id, method |-> Method(c[1]),
                                  params |-> params]),
            !.unanswered = IF m.socket = "open" THEN @ \cup {id} ELSE @,
            !.outcome = With(@, c, "pending"),
            !.rid = With(@, c, id),
            !.got = With(@, c, 0),
            !.worker = With(@, c, "running")]

\* OnData settling the oldest pending request instead of the one the
\* response names (responses assumed to arrive in request order).


OnData_oldest(m, id, kind) ==
    LET m0 == [m EXCEPT !.unanswered = @ \ {id}]
    IN  IF m.pendingRequests # EmptyMap
        THEN LET old == Min(DOMAIN m.pendingRequests)
                 c == m.pendingRequests[old]
                 m1 == [m0 EXCEPT !.pendingRequests = Without(@, {old}),
                                  !.timers = Without(@, {old})]
             IN  IF kind = "error"
                 THEN Settle(m1, c, "rpcerror", <<>>, id)
                 ELSE Settle(m1, c, "result", ServerResult(m.sent[id]), id)
        ELSE m0

\* OnData leaving the timer of the request it settles to run.
OnData_keepTimer(m, id, kind) ==
    LET m0 == [m EXCEPT !.unanswered = @ \ {id}]
    IN  IF id \in DOMAIN m.pendingRequests
        THEN LET c == m.pendingRequests[id]
                 m1 == [m0 EXCEPT !.pendingRequests = Without(@, {id})]
             IN  IF kind = "error"
                 THEN Settle(m1, c, "rpcerror", <<>>, id)
                 ELSE Settle(m1, c, "result", ServerResult(m.sent[id]), id)
        ELSE m0

\* The try block of the loop: the response carrying id settles the pending
\* request of that id, if there is one.
OnData(m, id, kind) ==
    LET m0 == [m EXCEPT !.unanswered = @ \ {id}]
    IN  IF id \in DOMAIN m.pendingRequests
        THEN LET c == m.pendingRequests[id]
                 m1 == [m0 EXCEPT !.pendingRequests = Without(@, {id}),
                                  !.timers = Without(@, {id})]
             IN  IF kind = "error"
                 THEN Settle(m1, c, "rpcerror", <<>>, id)
                 ELSE Settle(m1, c, "result", ServerResult(m.sent[id]), id)
        ELSE m0

\* The text on the wire, in pieces: a newline, the text of the response to
\* request id ("whole"), that text cut in two ("head", "tail"), and text that
\* is no response ("junk"): kind "text" is not JSON, "null" is the JSON
\* value null, "noid" is a JSON object without an id (a notification).
NL == [t |-> "nl", id |-> 0, kind |-> ""]

Text(t, id, kind) == [t |-> t, id |-> id, kind |-> kind]

JunkKinds == {"text", "null", "noid"}

\* String.prototype.split('\n'): the segments between the newlines, the
\* last one being what follows the last newline.
RECURSIVE Split(_)
Split(s) ==
    IF \A k \in 1..Len(s) : s[k] # NL THEN <<s>>
    ELSE LET k == Min({ j \in 1..Len(s) : s[j] = NL })
         IN  <<SubSeq(s, 1, k - 1)>> \o Split(SubSeq(s, k + 1, Len(s)))

\* JSON.parse(line) followed by the read of response.id: whether the two
\* throw, and the id and kind of the response (id 0: response.id is
\* undefined).  JSON.parse("null") returns null, whose .id throws.
JSONParse(line) ==
    IF Len(line) = 1 /\ line[1].t = "whole"
    THEN [throws |-> FALSE, id |-> line[1].id, kind |-> line[1].kind]
    ELSE IF /\ Len(line) = 2
            /\ line[1].t = "head" /\ line[2].t = "tail"
            /\ line[1].id = line[2].id /\ line[1].kind = line[2].kind
    THEN [throws |-> FALSE, id |-> line[1].id, kind |-> line[1].kind]
    ELSE IF Len(line) = 1 /\ line[1].t = "junk" /\ line[1].kind = "noid"
    THEN [throws |-> FALSE, id |-> 0, kind |-> "result"]
    ELSE [throws |-> TRUE, id |-> 0, kind |-> ""]

\* The body of the for loop over the lines: a blank line is skipped, a line
\* that does not parse is logged, a response is handed to its pending
\* request.
OnLine(m, line) ==
    IF line = <<>> THEN m
    ELSE LET response == JSONParse(line)
         IN  IF response.throws THEN Log(m, 57, ZeroHash, 0)
             ELSE OnData(m, response.id, response.kind)

\* OnLines with the try around the loop instead of inside it: the first
\* line that does not parse ends the loop.
RECURSIVE OnLines_tryOutside(_, _)
OnLines_tryOutside(m, lines) ==
    IF lines = <<>> THEN m
    ELSE IF Head(lines) # <<>> /\ JSONParse(Head(lines)).throws
    THEN Log(m, 57, ZeroHash, 0)
    ELSE OnLines_tryOutside(OnLine(m, Head(lines)), Tail(lines))

\* for (const line of lines)
RECURSIVE OnLines(_, _)
OnLines(m, lines) ==
    IF lines = <<>> THEN m
    ELSE OnLines(OnLine(m, Head(lines)), Tail(lines))

\* OnChunk without the buffer: each chunk is split on its own, and what
\* follows its last newline is parsed as a line of its own.
OnChunk_noBuffer(m, chunk) ==
    OnLines(m, Split(chunk))

\* socket.on('data'): append the chunk to the buffer, split, keep the last
\* segment in the buffer and run the loop over the others.
OnChunk(m, chunk) ==
    LET lines == Split(m.buffer \o chunk)
    IN  OnLines([m EXCEPT !.buffer = lines[Len(lines)]],
                SubSeq(lines, 1, Len(lines) - 1))

\* OnTimeout clearing the whole pending map instead of deleting its own id.
OnTimeout_clearAll(m, id) ==
    LET c == m.timers[id]
        m1 == [m EXCEPT !.timers = Without(@, {id}),
                        !.pendingRequests = EmptyMap]
    IN  Settle(m1, c, "timeout", <<>>, 0)

\* The setTimeout callback of request id.
OnTimeout(m, id) ==
    LET c == m.timers[id]
        m1 == [m EXCEPT !.timers = Without(@, {id}),
                        !.pendingRequests = Without(@, {id})]
    IN  Settle(m1, c, "timeout", <<>>, 0)

RECURSIVE RejectAll(_, _)
RejectAll(m, ids) ==
    IF ids = {} THEN m
    ELSE LET id == Min(ids)
             m1 == [m EXCEPT !.timers = Without(@, {id})]
         IN  RejectAll(Settle(m1, m.pendingRequests[id], "connerror", <<>>, 0),
                       ids \ {id})

\* socket.on('error')
OnError(m) ==
    LET m1 == RejectAll(m, DOMAIN m.pendingRequests)
    IN  [m1 EXCEPT !.pendingRequests = EmptyMap,
                   !.socket = "errored",
                   !.unanswered = {},
                   !.errInFlight =
                       @ \/ (\E id \in DOMAIN m.pendingRequests :
                                m.pendingRequests[id] # HS)]

\* connection.close(): socket.destroy(), a no-op on a socket already gone.
Close(m) ==
    [m EXCEPT !.socket = IF @ \in {"connecting", "open"} THEN "destroyed"
                         ELSE @,
              !.unanswered = {}]

(***************************************************************************)
(* The bodies of the batch loops: what the handlers do with the results    *)
(* of one chunk.                                                           *)
(***************************************************************************)
\* [...new Set(seq)]: first occurrences, in order.
RECURSIVE Unique(_)
Unique(s) ==
    IF s = <<>> THEN <<>>
    ELSE LET r == Unique(SubSeq(s, 1, Len(s) - 1))
             x == s[Len(s)]
         IN  IF x \in Range(r) THEN r ELSE Append(r, x)

\* PushHistory without seenTxids: a confirmed entry is kept every time a
\* history lists it.
RECURSIVE PushHistory_noDedup(_, _)
PushHistory_noDedup(acc, history) ==
    IF history = <<>> THEN acc
    ELSE LET item == Head(history)
         IN  PushHistory_noDedup(IF item.height > 0
                                 THEN Append(acc, item) ELSE acc,
                                 Tail(history))

\* PushHistory without the height test: mempool entries (height <= 0) are
\* kept like confirmed ones.
RECURSIVE PushHistory_keepUnconfirmed(_, _)
PushHistory_keepUnconfirmed(acc, history) ==
    IF history = <<>> THEN acc
    ELSE LET item == Head(history)
             seenTxids == { acc[k].tx_hash : k \in 1..Len(acc) }
         IN  PushHistory_keepUnconfirmed(
                 IF item.tx_hash \notin seenTxids
                 THEN Append(acc, item) ELSE acc,
                 Tail(history))

\* PushHistory testing height >= 0: an entry of height 0 (in the mempool,
\* all parents confirmed) is kept like a confirmed one.
RECURSIVE PushHistory_nonNegative(_, _)
PushHistory_nonNegative(acc, history) ==
    IF history = <<>> THEN acc
    ELSE LET item == Head(history)
             seenTxids == { acc[k].tx_hash : k \in 1..Len(acc) }
         IN  PushHistory_nonNegative(
                 IF item.tx_hash \notin seenTxids /\ item.height >= 0
                 THEN Append(acc, item) ELSE acc,
                 Tail(history))

\* Step 1, inner loop: keep the confirmed, not yet seen entries of one
\* history.  seenTxids holds exactly the tx_hash of allHistoryItems.
RECURSIVE PushHistory(_, _)
PushHistory(acc, history) ==
    IF history = <<>> THEN acc
    ELSE LET item == Head(history)
             seenTxids == { acc[k].tx_hash : k \in 1..Len(acc) }
         IN  PushHistory(IF item.tx_hash \notin seenTxids /\ item.height > 0
                         THEN Append(acc, item) ELSE acc,
                         Tail(history))

\* Step 3: the sum of the outputs paying one of our script hashes.
RECURSIVE incomingSats(_, _)
incomingSats(outs, ourScriptHashes) ==
    IF outs = <<>> THEN 0
    ELSE (IF computeScriptHash(Head(outs).script) \in ourScriptHashes
          THEN Head(outs).value ELSE 0)
         + incomingSats(Tail(outs), ourScriptHashes)

\* allHistoryItems.find(h => h.tx_hash === txHash)?.height || 0
HeightOf(all, txHash) ==
    IF \E k \in 1..Len(all) : all[k].tx_hash = txHash
    THEN all[Min({ k \in 1..Len(all) : all[k].tx_hash = txHash })].height
    ELSE 0

\* Map.set on an insertion-ordered Map kept as a sequence of entries.
MapSet(map, key, entry) ==
    IF \E k \in 1..Len(map) : map[k].txHash = key
    THEN [k \in 1..Len(map) |-> IF map[k].txHash = key THEN entry ELSE map[k]]
    ELSE Append(map, entry)

\* The for loop over the results of one chunk, per fan-out.
RECURSIVE ProcessResults(_, _)
ProcessResults(m, rs) ==
    IF rs = <<>> THEN m
    ELSE
      LET r == Head(rs)
          m1 ==
            IF m.phase = "balance" THEN
                [m EXCEPT !.addressBalances = Append(@, r)]
            ELSE IF m.phase = "history" THEN
                [m EXCEPT !.allHistoryItems = PushHistory(@, r.history)]
            ELSE IF m.phase = "header" THEN
                [m EXCEPT !.heightToTimestamp = With(@, r.height, r.timestamp)]
            ELSE IF m.phase = "tx" THEN
                IF r.tx = <<>> THEN Log(m, 258, r.txHash, 0)
                ELSE [m EXCEPT
                        !.txCache = MapSet(@, r.txHash,
                                           [txHash |-> r.txHash, tx |-> r.tx[1]]),
                        !.txDetails = MapSet(@, r.txHash,
                            [txHash |-> r.txHash,
                             deltaSats |-> incomingSats(r.tx[1].outs,
                                                        Range(m.scriptHashes)),
                             height |-> HeightOf(m.allHistoryItems, r.txHash)])]
            ELSE \* "prevout"
                IF r.tx = <<>> THEN m
                ELSE [m EXCEPT !.prevoutTxCache = With(@, r.txHash, r.tx[1])]
      IN  ProcessResults(m1, Tail(rs))

\* RefsOfInputs taking the previous txid as the decoder stores it (internal
\* byte order), without reversing it.
RECURSIVE RefsOfInputs_noReverse(_, _)
RefsOfInputs_noReverse(txHash, ins) ==
    IF ins = <<>> THEN <<>>
    ELSE LET vin == Head(ins)
             rest == RefsOfInputs_noReverse(txHash, Tail(ins))
         IN  IF vin.hash = ZeroHash THEN rest
             ELSE << [txHash |-> vin.hash, spentInTx |-> txHash,
                      voutIndex |-> vin.index] >> \o rest

\* RefsOfInputs without the coinbase test: the all-zero previous txid yields
\* a reference like any other.
RECURSIVE RefsOfInputs_noCoinbaseSkip(_, _)
RefsOfInputs_noCoinbaseSkip(txHash, ins) ==
    IF ins = <<>> THEN <<>>
    ELSE LET vin == Head(ins)
             rest == RefsOfInputs_noCoinbaseSkip(txHash, Tail(ins))
         IN  << [txHash |-> Reverse(vin.hash), spentInTx |-> txHash,
                 voutIndex |-> vin.index] >> \o rest

\* Step 4: the prevout references of the inputs of one transaction.
RECURSIVE RefsOfInputs(_, _)
RefsOfInputs(txHash, ins) ==
    IF ins = <<>> THEN <<>>
    ELSE LET vin == Head(ins)
             rest == RefsOfInputs(txHash, Tail(ins))
         IN  IF vin.hash = ZeroHash THEN rest
             ELSE << [txHash |-> Reverse(vin.hash), spentInTx |-> txHash,
                      voutIndex |-> vin.index] >> \o rest

RECURSIVE CollectRefs(_)
CollectRefs(cache) ==
    IF cache = <<>> THEN <<>>
    ELSE RefsOfInputs(Head(cache).txHash, Head(cache).tx.ins)
         \o CollectRefs(Tail(cache))

\* Subtract booking the spent value on the transaction that created the
\* output instead of on the transaction that spends it.
RECURSIVE Subtract_onPrevious(_, _, _, _)
Subtract_onPrevious(details, refs, cache, ourScriptHashes) ==
    IF refs = <<>> THEN details
    ELSE
      LET ref == Head(refs)
          hit == /\ ref.txHash \in DOMAIN cache
                 /\ ref.voutIndex < Len(cache[ref.txHash].outs)
                 /\ computeScriptHash(
                        cache[ref.txHash].outs[ref.voutIndex + 1].script)
                    \in ourScriptHashes
          d1 == IF hit
                THEN [k \in 1..Len(details) |->
                        IF details[k].txHash = ref.txHash
                        THEN [details[k] EXCEPT !.deltaSats =
                                @ - cache[ref.txHash].outs[ref.voutIndex + 1].value]
                        ELSE details[k]]
                ELSE details
      IN  Subtract_onPrevious(d1, Tail(refs), cache, ourScriptHashes)

\* Subtract leaving the loop at the first reference it cannot resolve
\* (break in place of continue): the references after it are not booked.
RECURSIVE Subtract_stopAtUnresolved(_, _, _, _)
Subtract_stopAtUnresolved(details, refs, cache, ourScriptHashes) ==
    IF refs = <<>> THEN details
    ELSE
      LET ref == Head(refs)
          resolved == /\ ref.txHash \in DOMAIN cache
                      /\ ref.voutIndex < Len(cache[ref.txHash].outs)
          hit == /\ resolved
                 /\ computeScriptHash(
                        cache[ref.txHash].outs[ref.voutIndex + 1].script)
                    \in ourScriptHashes
          d1 == IF hit
                THEN [k \in 1..Len(details) |->
                        IF details[k].txHash = ref.spentInTx
                        THEN [details[k] EXCEPT !.deltaSats =
                                @ - cache[ref.txHash].outs[ref.voutIndex + 1].value]
                        ELSE details[k]]
                ELSE details
      IN  IF resolved
          THEN Subtract_stopAtUnresolved(d1, Tail(refs), cache, ourScriptHashes)
          ELSE details

\* "Now subtract outgoing amounts"
RECURSIVE Subtract(_, _, _, _)
Subtract(details, refs, cache, ourScriptHashes) ==
    IF refs = <<>> THEN details
    ELSE
      LET ref == Head(refs)
          hit == /\ ref.txHash \in DOMAIN cache
                 /\ ref.voutIndex < Len(cache[ref.txHash].outs)
                 /\ computeScriptHash(
                        cache[ref.txHash].outs[ref.voutIndex + 1].script)
                    \in ourScriptHashes
          d1 == IF hit
                THEN [k \in 1..Len(details) |->
                        IF details[k].txHash = ref.spentInTx
                        THEN [details[k] EXCEPT !.deltaSats =
                                @ - cache[ref.txHash].outs[ref.voutIndex + 1].value]
                        ELSE details[k]]
                ELSE details
      IN  Subtract(d1, Tail(refs), cache, ourScriptHashes)

\* SortByHeight left out: the transactions stay in discovery order.
SortByHeight_none(s) == s

\* SortByHeight with an unstable sort: transactions of equal height come out
\* in the reverse of their discovery order.
RECURSIVE SortByHeight_unstable(_)
SortByHeight_unstable(s) ==
    IF s = <<>> THEN <<>>
    ELSE LET r == SortByHeight_unstable(SubSeq(s, 1, Len(s) - 1))
             x == s[Len(s)]
             n == Cardinality({ k \in 1..Len(r) : r[k].height < x.height })
         IN  SubSeq(r, 1, n) \o <<x>> \o SubSeq(r, n + 1, Len(r))

\* Array.prototype.sort((a, b) => a.height - b.height): stable.
RECURSIVE SortByHeight(_)
SortByHeight(s) ==
    IF s = <<>> THEN <<>>
    ELSE LET r == SortByHeight(SubSeq(s, 1, Len(s) - 1))
             x == s[Len(s)]
             n == Cardinality({ k \in 1..Len(r) : r[k].height <= x.height })
         IN  SubSeq(r, 1, n) \o <<x>> \o SubSeq(r, n + 1, Len(r))

\* Timeline restarting from the initial value at every transaction: the
\* cumulative value of a point is its own delta.
RECURSIVE Timeline_noCarry(_, _, _)
Timeline_noCarry(sorted, cumulativeSats, h2t) ==
    IF sorted = <<>> THEN <<>>
    ELSE LET d == Head(sorted)
             cum == cumulativeSats + d.deltaSats
             ts == IF d.height \in DOMAIN h2t THEN h2t[d.height] ELSE 0
         IN  << [timestamp |-> ts, cumulativeSats |-> cum,
                 deltaSats |-> d.deltaSats, txHash |-> d.txHash,
                 blockHeight |-> d.height] >>
             \o Timeline_noCarry(Tail(sorted), cumulativeSats, h2t)

\* Step 5: the timeline.  cumulativeSats is the running sum the handler
\* divides by 1e8 to fill cumulativeBtc.
RECURSIVE Timeline(_, _, _)
Timeline(sorted, cumulativeSats, h2t) ==
    IF sorted = <<>> THEN <<>>
    ELSE LET d == Head(sorted)
             cum == cumulativeSats + d.deltaSats
             ts == IF d.height \in DOMAIN h2t THEN h2t[d.height] ELSE 0
         IN  << [timestamp |-> ts, cumulativeSats |-> cum,
                 deltaSats |-> d.deltaSats, txHash |-> d.txHash,
                 blockHeight |-> d.height] >>
             \o Timeline(Tail(sorted), cum, h2t)

RECURSIVE SumBalance(_)
SumBalance(addrs) ==
    IF addrs = <<>> THEN 0 ELSE Head(addrs).balance + SumBalance(Tail(addrs))

(***************************************************************************)
(* The POST handlers.                                                      *)
(***************************************************************************)
\* Respond without the finally block: the connection is left as it is.
Respond_noFinally(m, code, payload) ==
    [m EXCEPT !.status = code, !.body = payload, !.pc = "done"]

\* return json(...) followed by the finally block.
Respond(m, code, payload) ==
    Close([m EXCEPT !.status = code, !.body = payload, !.pc = "done"])

\* An exception reaching the handler's outer catch.
Throw(m, message) == Respond(m, 500, [error |-> message])

\* The callers of the chunk the loop is awaiting: items i .. i+batchSize-1.
ChunkCallers(m) ==
    LET len == Len(m.items[m.phase])
        hi == IF m.i + batchSize < len THEN m.i + batchSize ELSE len
    IN  { <<m.phase, k>> : k \in (m.i + 1)..hi }

\* batch.map(worker): the workers of items from+1 .. to start, in order.
RECURSIVE Launch(_, _, _, _)
Launch(m, ph, from, to) ==
    IF from >= to THEN m
    ELSE Launch(Request(m, <<ph, from + 1>>, m.items[ph][from + 1]),
                ph, from + 1, to)

\* The top of one iteration of a batch loop: slice the batch and, in the
\* history handler, start its workers.  The balance handler started all
\* of its workers before the loop (scriptHashes.map), the loop only slices
\* the promises.
StartChunk(m) ==
    LET len == Len(m.items[m.phase])
        batch == Slice(m.items[m.phase], m.i, m.i + batchSize)
        m1 == [m EXCEPT !.pc = "fanout",
                        !.chunkLog[m.phase] = Append(@, Len(batch))]
    IN  IF m.phase = "balance" THEN m1
        ELSE Launch(m1, m.phase, m.i, m.i + Len(batch))

\* uniqueHeights without the Set: one entry per history item.
uniqueHeights_perItem(all) ==
    [k \in 1..Len(all) |-> all[k].height]

\* [...new Set(allHistoryItems.map(item => item.height))]
uniqueHeights(all) ==
    Unique([k \in 1..Len(all) |-> all[k].height])

RECURSIVE LoopNext(_)
RECURSIVE StartPhase(_, _, _)

\* What follows a batch loop.
EndPhase(m) ==
    IF m.phase = "balance" THEN
        Respond(m, 200, [balance |-> SumBalance(m.addressBalances),
                         addresses |-> m.addressBalances])
    ELSE IF m.phase = "history" THEN
        IF Len(m.allHistoryItems) = 0
        THEN Respond(m, 200, [history |-> <<>>])
        ELSE StartPhase(m, "header", uniqueHeights(m.allHistoryItems))
    ELSE IF m.phase = "header" THEN
        StartPhase(Log(m, 234, ZeroHash, Len(m.allHistoryItems)), "tx",
                   [k \in 1..Len(m.allHistoryItems) |->
                        m.allHistoryItems[k].tx_hash])
    ELSE IF m.phase = "tx" THEN
        LET refs == CollectRefs(m.txCache)
            cached == { m.txCache[k].txHash : k \in 1..Len(m.txCache) }
            uniquePrevoutTxids ==
                SelectSeq(Unique([k \in 1..Len(refs) |-> refs[k].txHash]),
                          LAMBDA id : id \notin cached)
            m1 == [m EXCEPT
                    !.prevoutRefs = refs,
                    !.prevoutTxCache =
                        [id \in cached |->
                            m.txCache[CHOOSE k \in 1..Len(m.txCache) :
                                        m.txCache[k].txHash = id].tx]]
        IN  StartPhase(Log(Log(m1, 292, ZeroHash, Len(m.txCache)),
                           319, ZeroHash, Len(uniquePrevoutTxids)),
                       "prevout", uniquePrevoutTxids)
    ELSE \* "prevout"
        LET details == Subtract(m.txDetails, m.prevoutRefs, m.prevoutTxCache,
                                Range(m.scriptHashes))
            timeline == Timeline(SortByHeight(details), 0, m.heightToTimestamp)
        IN  Respond(Log([m EXCEPT !.txDetails = details],
                        383, ZeroHash, Len(timeline)),
                    200, [history |-> timeline])

\* The loop condition i < items.length.
LoopNext(m) ==
    IF m.i < Len(m.items[m.phase]) THEN StartChunk(m) ELSE EndPhase(m)

\* Entering a batch loop over arr.
StartPhase(m, ph, arr) ==
    LET m1 == [m EXCEPT !.phase = ph, !.i = 0,
                        !.items = With(@, ph, arr),
                        !.results = With(@, ph, <<>>),
                        !.chunkLog = With(@, ph, <<>>),
                        !.delayLog = With(@, ph, 0)]
    IN  LoopNext(IF ph = "balance" THEN Launch(m1, ph, 0, Len(arr)) ELSE m1)

\* After a successful handshake.
AfterHandshake(m) ==
    StartPhase(m, m.op, m.scriptHashes)

\* The handshake's catch block logging the error instead of throwing.
HandshakeFailed_ignored(m) ==
    StartPhase(m, m.op, m.scriptHashes)

\* The handshake's catch block.
HandshakeFailed(m) ==
    Throw(m, "Cannot connect to Electrum server")

\* AfterChunk with one catch around the whole batch: a failed item degrades
\* the results of all items of its chunk.
AfterChunk_batchCatch(m) ==
    LET len == Len(m.items[m.phase])
        hi == IF m.i + batchSize < len THEN m.i + batchSize ELSE len
        failed == \E k \in (m.i + 1)..hi : m.outcome[<<m.phase, k>>] # "result"
        batch == [k \in 1..(hi - m.i) |->
                    IF failed
                    THEN WorkerCatch(m.phase, m.items[m.phase][m.i + k]).value
                    ELSE m.ret[<<m.phase, m.i + k>>]]
        done == ChunkCallers(m)
        m1 == [ProcessResults(m, batch) EXCEPT
                 !.results[m.phase] =
                     @ \o [k \in 1..(hi - m.i) |->
                             [ret |-> batch[k],
                              ok |-> m.outcome[<<m.phase, m.i + k>>] = "result"]],
                 !.outcome = Without(@, done),
                 !.rid = Without(@, done),
                 !.got = Without(@, done),
                 !.worker = Without(@, done),
                 !.ret = Without(@, done)]
    IN  IF m.i + batchSize < len
        THEN [m1 EXCEPT !.pc = "delay", !.delayLog[m.phase] = @ + 1]
        ELSE LoopNext([m1 EXCEPT !.i = @ + batchSize])

\* AfterChunk pacing after every chunk, the last one included.
AfterChunk_alwaysDelay(m) ==
    LET len == Len(m.items[m.phase])
        hi == IF m.i + batchSize < len THEN m.i + batchSize ELSE len
        batch == [k \in 1..(hi - m.i) |-> m.ret[<<m.phase, m.i + k>>]]
        done == ChunkCallers(m)
        m1 == [ProcessResults(m, batch) EXCEPT
                 !.results[m.phase] =
                     @ \o [k \in 1..(hi - m.i) |->
                             [ret |-> batch[k],
                              ok |-> m.outcome[<<m.phase, m.i + k>>] = "result"]],
                 !.outcome = Without(@, done),
                 !.rid = Without(@, done),
                 !.got = Without(@, done),
                 !.worker = Without(@, done),
                 !.ret = Without(@, done)]
    IN  [m1 EXCEPT !.pc = "delay", !.delayLog[m.phase] = @ + 1]

\* AfterChunk gathering the results as they complete instead of by position:
\* the items that were answered come before the items that were not.
AfterChunk_completionOrder(m) ==
    LET len == Len(m.items[m.phase])
        hi == IF m.i + batchSize < len THEN m.i + batchSize ELSE len
        answered == { k \in 1..(hi - m.i) :
                        m.outcome[<<m.phase, m.i + k>>] \in {"result", "rpcerror"} }
        rank(k) == IF k \in answered
                   THEN Cardinality({ j \in answered : j <= k })
                   ELSE Cardinality(answered)
                        + Cardinality({ j \in (1..(hi - m.i)) \ answered : j <= k })
        at(p) == CHOOSE k \in 1..(hi - m.i) : rank(k) = p
        batch == [p \in 1..(hi - m.i) |-> m.ret[<<m.phase, m.i + at(p)>>]]
        done == ChunkCallers(m)
        m1 == [ProcessResults(m, batch) EXCEPT
                 !.results[m.phase] =
                     @ \o [p \in 1..(hi - m.i) |->
                             [ret |-> batch[p],
                              ok |-> m.outcome[<<m.phase, m.i + at(p)>>] = "result"]],
                 !.outcome = Without(@, done),
                 !.rid = Without(@, done),
                 !.got = Without(@, done),
                 !.worker = Without(@, done),
                 !.ret = Without(@, done)]
    IN  IF m.i + batchSize < len
        THEN [m1 EXCEPT !.pc = "delay", !.delayLog[m.phase] = @ + 1]
        ELSE LoopNext([m1 EXCEPT !.i = @ + batchSize])

\* After await Promise.all(batch): the results loop and the pacing delay.
AfterChunk(m) ==
    LET len == Len(m.items[m.phase])
        hi == IF m.i + batchSize < len THEN m.i + batchSize ELSE len
        batch == [k \in 1..(hi - m.i) |-> m.ret[<<m.phase, m.i + k>>]]
        done == ChunkCallers(m)
        m1 == [ProcessResults(m, batch) EXCEPT
                 !.results[m.phase] =
                     @ \o [k \in 1..(hi - m.i) |->
                             [ret |-> batch[k],
                              ok |-> m.outcome[<<m.phase, m.i + k>>] = "result"]],
                 !.outcome = Without(@, done),
                 !.rid = Without(@, done),
                 !.got = Without(@, done),
                 !.worker = Without(@, done),
                 !.ret = Without(@, done)]
    IN  IF m.i + batchSize < len
        THEN [m1 EXCEPT !.pc = "delay", !.delayLog[m.phase] = @ + 1]
        ELSE LoopNext([m1 EXCEPT !.i = @ + batchSize])

\* Run the handler until its next await that is not yet settled.
RECURSIVE Resume(_)
Resume(m) ==
    IF m.pc = "handshake" THEN
        IF m.outcome[HS] = "pending" THEN m
        ELSE IF m.outcome[HS] = "result" THEN Resume(AfterHandshake(m))
        ELSE HandshakeFailed(m)
    ELSE IF m.pc = "fanout" THEN
        IF \E c \in ChunkCallers(m) : m.worker[c] = "thrown"
        THEN Throw(m, "worker failed")
        ELSE IF \A c \in ChunkCallers(m) : m.worker[c] = "returned"
        THEN Resume(AfterChunk(m))
        ELSE m
    ELSE m

\* The server never answers request id.
Dropped(m, id) == [m EXCEPT !.unanswered = @ \ {id}]

(***************************************************************************)
(* The page: address derivation and the requests it sends to the server.   *)
(***************************************************************************)
\* Texts are numbered like the scripts they encode.  An address is the
\* encoding of one output script, an extended public key is one more text;
\* both lie in ranges disjoint from the script hashes.
AddressOf(script) == 200 + script

XPUB == 900

\* bitcoin.address.toOutputScript
toOutputScript(address) == address - 200

\* Addresses per chain the model lets the user ask for.
Counts == 1..(MaxItems \div 2)

\* detectInputType
detectInputType(input) ==
    IF input = 0 THEN "unknown"
    ELSE IF input = XPUB THEN "xpub"
    ELSE IF toOutputScript(input) \in 1..MaxItems THEN "address"
    ELSE "unknown"

addressToScriptHash(address) == computeScriptHash(toOutputScript(address))

singleAddressToDerivied(address) ==
    [address |-> address, scriptHash |-> addressToScriptHash(address),
     path |-> "single", index |-> 0, isChange |-> FALSE]

\* payment.output of the child chain/index of the key.
ChildScript(chain, index) == 2 * index + chain + 1

\* deriveAddresses(xpub, count, includeChange): the receive chain, then the
\* change chain, count children of each.
deriveAddresses(xpub, count, includeChange) ==
    LET chains == IF includeChange THEN 2 ELSE 1
    IN  [p \in 1..(chains * count) |->
            LET chain == (p - 1) \div count
                index == (p - 1) % count
                script == ChildScript(chain, index)
            IN  [address |-> AddressOf(script),
                 scriptHash |-> computeScriptHash(script),
                 path |-> <<chain, index>>,
                 index |-> index,
                 isChange |-> chain = 1]]

\* The connection settings of the page.
electrumHost == "electrum.blockstream.info"

electrumPort == 50002

useSsl == TRUE

\* The page sending the addresses in the place of their script hashes.
ScriptHashesOf_addresses(addresses) ==
    [k \in 1..Len(addresses) |-> addresses[k].address]

\* scriptHashes = addresses.map((a) => a.scriptHash)
ScriptHashesOf(addresses) ==
    [k \in 1..Len(addresses) |-> addresses[k].scriptHash]

\* fetch(url, {method: 'POST', body: JSON.stringify({...})})
Fetch(url, hashes) ==
    [url |-> url,
     body |-> [host |-> electrumHost, port |-> electrumPort,
               scriptHashes |-> hashes, useSsl |-> useSsl]]

fetchBalance(m) ==
    IF Len(ScriptHashesOf(m.derivedAddresses)) = 0 THEN m
    ELSE [m EXCEPT !.request =
            Fetch("/api/balance", ScriptHashesOf(m.derivedAddresses))]

fetchHistory(m) ==
    IF Len(ScriptHashesOf(m.derivedAddresses)) = 0 THEN m
    ELSE [m EXCEPT !.request =
            Fetch("/api/history", ScriptHashesOf(m.derivedAddresses))]

\* The sizes of the script hash lists the page sends, and the other sizes,
\* which only another client of the endpoints sends (the handlers treat a
\* list the same whoever sent it).
PageSizes == {1} \cup { 2 * c : c \in Counts }

ForeignSizes == (0..MaxItems) \ PageSizes

(***************************************************************************)
(* Initial state and actions.                                              *)
(***************************************************************************)
(***************************************************************************)
(* Share links.  The page encrypts a snapshot of what it tracks, posts the *)
(* ciphertext to the share store and builds a link that carries the key in *)
(* its fragment; a browser opening the link fetches the ciphertext and     *)
(* decrypts it.  Strings are kept as tagged values: <<"k", n>> a key,      *)
(* <<"iv", n>> an IV, <<"id", n>> a share id, <<"seg", s>> a path segment, *)
(* <<"ct", c>> a ciphertext.                                               *)
(***************************************************************************)
\* MAX_RECORDS, the capacity of the share store (5000 in the source).
MAX_RECORDS == 1

\* The clock runs from day 1 to day MaxDays.
MaxDays == 8

Day == 24 * 60 * 60 * 1000

DEFAULT_TTL_MS == 7 * 24 * 60 * 60 * 1000

\* crypto.getRandomValues(new Uint8Array(32)), ...(12), randomBytes(18)
Keys == { <<"k", 1>> }

Ivs == { <<"iv", 1>> }

Ids == { <<"id", n>> : n \in 1..(MAX_RECORDS + 1) }

NoRequest == [method |-> "", path |-> <<>>, query |-> <<>>, body |-> EmptyMap]

NoResponse == [status |-> 0, body |-> EmptyMap]

NoLink == [path |-> <<>>, query |-> <<>>, fragment |-> <<>>]

NoCall == [ttlMs |-> <<>>, thrown |-> FALSE, record |-> <<>>]

NoRead == [record |-> <<>>, now |-> 0]

\* ---- $lib/services/share
validateSharePayload(value) ==
    /\ value.version = 1
    /\ value.createdAt > 0
    /\ Len(value.scriptHashes) > 0
    /\ \A k \in 1..Len(value.scriptHashes) :
          \E script \in 1..(2 * MaxItems) :
              value.scriptHashes[k] = computeScriptHash(script)
    /\ value.settings.host # ""
    /\ value.settings.port >= 1 /\ value.settings.port <= 65535
    /\ value.settings.useSsl \in BOOLEAN

\* crypto.subtle.encrypt({name: 'AES-GCM', iv}, key, plaintext): the
\* ciphertext is opaque without the key.
Encrypt(plaintext, key, iv) ==
    <<"ct", [key |-> key, iv |-> iv, plaintext |-> plaintext]>>

\* crypto.subtle.decrypt: <<plaintext>>, or <<>> when it throws.
Decrypt(ciphertext, key, iv) ==
    IF ciphertext[2].key = key /\ ciphertext[2].iv = iv
    THEN <<ciphertext[2].plaintext>> ELSE <<>>

\* encryptSharePayload under the random key and iv; thrown on an invalid
\* payload.
encryptSharePayload(payload, key, iv) ==
    IF ~validateSharePayload(payload)
    THEN [thrown |-> TRUE, encrypted |-> EmptyMap, key |-> <<>>]
    ELSE [thrown |-> FALSE,
          encrypted |-> [v |-> <<"v", 1>>, iv |-> iv,
                         ciphertext |-> Encrypt(payload, key, iv)],
          key |-> <<key>>]

\* decryptSharePayload: <<payload>>, or <<>> when it throws.
decryptSharePayload(encrypted, key) ==
    IF \/ {"v", "iv", "ciphertext"} \ DOMAIN encrypted # {}
       \/ encrypted.v # <<"v", 1>>
       \/ key[1] # "k"
       \/ encrypted.iv[1] # "iv"
    THEN <<>>
    ELSE LET plain == Decrypt(encrypted.ciphertext, key, encrypted.iv)
         IN  IF plain = <<>> THEN <<>>
             ELSE IF validateSharePayload(plain[1]) THEN plain ELSE <<>>

\* parseShareKeyFromHash(window.location.hash): <<key>>, or <<>> for null.
parseShareKeyFromHash(hash) ==
    IF hash # <<>> /\ hash[1][1] = "k" THEN <<hash[1]>> ELSE <<>>

\* ---- $lib/server/share-store
cleanupExpired(store, now) ==
    SelectSeq(store, LAMBDA record : ~(record.expiresAt <= now))

\* [...shareStore.values()].sort((a, b) => a.expiresAt - b.expiresAt)
RECURSIVE SortByExpiry(_)
SortByExpiry(s) ==
    IF s = <<>> THEN <<>>
    ELSE LET r == SortByExpiry(SubSeq(s, 1, Len(s) - 1))
             x == s[Len(s)]
             n == Cardinality({ k \in 1..Len(r) : r[k].expiresAt <= x.expiresAt })
         IN  SubSeq(r, 1, n) \o <<x>> \o SubSeq(r, n + 1, Len(r))

pruneIfNeeded(store) ==
    IF Len(store) <= MAX_RECORDS THEN store
    ELSE LET recordsByExpiry == SortByExpiry(store)
             oldest == { recordsByExpiry[k].id :
                           k \in 1..(Len(store) - MAX_RECORDS) }
         IN  SelectSeq(store, LAMBDA record : record.id \notin oldest)

\* createShareRecord storing now + ttlMs, without the cap at DEFAULT_TTL_MS.
createShareRecord_noCap(store, payload, now0, now, id) ==
    LET cleaned == cleanupExpired(store, now0)
        ttlMs == IF payload.ttlMs # <<>> /\ payload.ttlMs[1] > 0
                 THEN payload.ttlMs[1] ELSE DEFAULT_TTL_MS
        record == [id |-> id, v |-> payload.v, iv |-> payload.iv,
                   ciphertext |-> payload.ciphertext,
                   createdAt |-> now, expiresAt |-> now + ttlMs]
    IN  IF \E k \in 1..Len(cleaned) : cleaned[k].id = id
        THEN [store |-> cleaned, thrown |-> TRUE, record |-> <<>>]
        ELSE [store |-> pruneIfNeeded(Append(cleaned, record)),
              thrown |-> FALSE, record |-> <<record>>]

\* createShareRecord(payload).  now0 and now are the clock as read by
\* cleanupExpired and by the function itself; id is the id the loop over
\* generateId ends with, which is taken only if every draw was.
createShareRecord(store, payload, now0, now, id) ==
    LET cleaned == cleanupExpired(store, now0)
        ttlMs == IF payload.ttlMs # <<>> /\ payload.ttlMs[1] > 0
                 THEN payload.ttlMs[1] ELSE DEFAULT_TTL_MS
        record == [id |-> id, v |-> payload.v, iv |-> payload.iv,
                   ciphertext |-> payload.ciphertext,
                   createdAt |-> now,
                   expiresAt |-> now + Min({ttlMs, DEFAULT_TTL_MS})]
    IN  IF \E k \in 1..Len(cleaned) : cleaned[k].id = id
        THEN [store |-> cleaned, thrown |-> TRUE, record |-> <<>>]
        ELSE [store |-> pruneIfNeeded(Append(cleaned, record)),
              thrown |-> FALSE, record |-> <<record>>]

\* getShareRecord(id).  now0 and now are the clock as read by
\* cleanupExpired and by the expiry test.
getShareRecord(store, id, now0, now) ==
    LET cleaned == cleanupExpired(store, now0)
        found == SelectSeq(cleaned, LAMBDA record : record.id = id)
    IN  IF found = <<>> THEN [store |-> cleaned, record |-> <<>>]
        ELSE IF found[1].expiresAt <= now
        THEN [store |-> SelectSeq(cleaned, LAMBDA record : record.id # id),
              record |-> <<>>]
        ELSE [store |-> cleaned, record |-> <<found[1]>>]

\* ---- the page
\* The link with the key in the query string instead of the fragment.
ShareLinkOf_query(id, key) ==
    [path |-> << <<"seg", "share">>, id >>, query |-> <<key>>,
     fragment |-> <<>>]

\* `${origin}/share/${result.id}#k=${encodeURIComponent(key)}`
ShareLinkOf(id, key) ==
    [path |-> << <<"seg", "share">>, id >>, query |-> <<>>,
     fragment |-> <<key>>]

\* The request a browser sends to load a URL: the fragment stays behind.
Navigation(url) ==
    [method |-> "GET", path |-> url.path, query |-> url.query,
     body |-> EmptyMap]

SharePayloadOf(hashes, now) ==
    [version |-> 1, createdAt |-> now, scriptHashes |-> Unique(hashes),
     settings |-> [host |-> electrumHost, port |-> electrumPort,
                   useSsl |-> useSsl],
     preferences |-> [showEuro |-> FALSE, showSats |-> FALSE,
                      hideEmpty |-> TRUE, showChart |-> TRUE]]


Init ==
    /\ xpubInput \in {0, AddressOf(1), XPUB}
    /\ addressCount \in Counts
    /\ xpubInput # XPUB => addressCount = 1
    /\ derivedAddresses = <<>>
    /\ request = <<>>
    /\ op \in {"balance", "history"}
    /\ scriptHashes = <<>>
    /\ pc = "page"
    /\ phase = "none"
    /\ items = EmptyMap
    /\ i = 0
    /\ status = 0
    /\ body = <<>>
    /\ socket = "none"
    /\ requestId = 0
    /\ pendingRequests = EmptyMap
    /\ timers = EmptyMap
    /\ sent = EmptyMap
    /\ unanswered = {}
    /\ outcome = EmptyMap
    /\ rid = EmptyMap
    /\ got = EmptyMap
    /\ worker = EmptyMap
    /\ ret = EmptyMap
    /\ results = EmptyMap
    /\ addressBalances = <<>>
    /\ allHistoryItems = <<>>
    /\ heightToTimestamp = EmptyMap
    /\ txDetails = <<>>
    /\ txCache = <<>>
    /\ prevoutRefs = <<>>
    /\ prevoutTxCache = EmptyMap
    /\ chunkLog = EmptyMap
    /\ delayLog = EmptyMap
    /\ errInFlight = FALSE
    /\ console = {}
    /\ buffer = <<>>
    /\ received = <<>>
    /\ fired = 0
    /\ clock = Day
    /\ shareStore = <<>>
    /\ created = NoCall
    /\ returned = NoRead
    /\ shareRequest = NoRequest
    /\ shareResponse = NoResponse
    /\ sharePc = "idle"
    /\ shareKey = <<>>
    /\ shareLink = NoLink
    /\ openPc = "closed"
    /\ location = NoLink
    /\ sessionStorage = <<>>
    /\ clientWs = "null"
    /\ clientSocket = "none"
    /\ clientRequestId = 0
    /\ clientPending = {}
    /\ clientTimers = {}
    /\ clientCalls = EmptyMap
    /\ clientRefused = 0
    /\ clientWire = {}
    /\ feedWs = 0
    /\ feedSockets = <<>>
    /\ isConnecting = FALSE
    /\ reconnectTimeout = FALSE
    /\ rateRefreshInterval = 0
    /\ liveRateIntervals = {}
    /\ callbacks = 0
    /\ feedStopped = FALSE
    /\ isConnected = FALSE
    /\ isLoading = FALSE
    /\ pagePc = "idle"
    /\ pageAwait = 0
    /\ hasScriptHashes = FALSE
    /\ btcBalance = 0
    /\ pageBalances = <<>>
    /\ historyData = <<>>
    /\ refreshInterval = 0
    /\ liveRefreshIntervals = {}
    /\ unsubscribePrice = FALSE
    /\ balanceFetches = 0
    /\ historyFetches = 0
    /\ runs = 0
    /\ disconnected = FALSE

\* connectAndLoad: derive the addresses from the input and fetch the
\* balance.  The history is fetched once the page is connected.
connectAndLoad ==
    /\ pc = "page"
    /\ detectInputType(xpubInput) # "unknown"
    /\ LET addresses ==
               IF detectInputType(xpubInput) = "address"
               THEN << singleAddressToDerivied(xpubInput) >>
               ELSE deriveAddresses(xpubInput, addressCount, TRUE)
       IN  Becomes([fetchBalance([Cur EXCEPT !.derivedAddresses = addresses])
                       EXCEPT !.pc = IF op = "balance" THEN "start"
                                     ELSE "connected"])
    /\ fired' = 0
    /\ received' = <<>>

\* The page asks for the history of the script hashes it is connected with.
FetchHistory ==
    /\ pc = "connected"
    /\ Becomes([fetchHistory(Cur) EXCEPT !.pc = "start"])
    /\ fired' = 0
    /\ received' = <<>>

\* Another client posts a list of script hashes to the endpoint.
ForeignRequest ==
    /\ pc = "page"
    /\ detectInputType(xpubInput) = "unknown"
    /\ \E n \in ForeignSizes :
          Becomes([Cur EXCEPT
                     !.request =
                         [url |-> IF op = "balance" THEN "/api/balance"
                                  ELSE "/api/history",
                          body |-> [host |-> electrumHost,
                                    port |-> electrumPort,
                                    scriptHashes |->
                                        [k \in 1..n |-> computeScriptHash(k)],
                                    useSsl |-> useSsl]],
                     !.pc = "start"])
    /\ fired' = 0
    /\ received' = <<>>

\* POST: destructure and validate the body, construct the connection, await
\* connect().
Start ==
    /\ pc = "start"
    /\ LET m == [Cur EXCEPT !.scriptHashes = request.body.scriptHashes]
       IN  IF request.body.host = "" \/ request.body.port = 0
              \/ Len(m.scriptHashes) = 0
           THEN Becomes([m EXCEPT !.status = 400, !.pc = "done",
                                  !.body = [error |-> "Missing required fields"]])
           ELSE Becomes([m EXCEPT !.socket = "connecting", !.pc = "connect"])
    /\ fired' = 0
    /\ received' = <<>>

\* 'connect': connect() resolves and the handshake is sent.
Connected ==
    /\ pc = "connect"
    /\ socket = "connecting"
    /\ Becomes(Request([Cur EXCEPT !.socket = "open", !.pc = "handshake"],
                       HS, <<"btc-tracker", "1.4">>))
    /\ fired' = 0
    /\ received' = <<>>

\* 'error' while connecting: connect() rejects.
ConnectFailed ==
    /\ pc = "connect"
    /\ socket = "connecting"
    /\ Becomes(Throw(OnError(Cur), "connect failed"))
    /\ fired' = 0
    /\ received' = <<>>

\* 'data': a chunk holding one response line, for a request the server has
\* not answered yet.
Data ==
    /\ socket = "open"
    /\ \E id \in unanswered, kind \in {"result", "error"} :
          Becomes(Resume(OnChunk(Cur, <<Text("whole", id, kind), NL>>)))
    /\ fired' = 0
    /\ received' = <<>>

\* A request timer fires.  Timers of equal duration fire in the order they
\* were set.
Timeout ==
    /\ timers # EmptyMap
    /\ LET id == Min(DOMAIN timers)
           m == Resume(OnTimeout(Cur, id))
       IN  \/ Becomes(Dropped(m, id))
           \/ /\ id \in m.unanswered
              /\ Cardinality(m.unanswered \ DOMAIN m.pendingRequests) <= MaxLate
              /\ Becomes(m)
    /\ fired' = Min(DOMAIN timers)
    /\ received' = <<>>

\* The 100 ms pacing timer fires.
Delay ==
    /\ pc = "delay"
    /\ Becomes(Resume(LoopNext([Cur EXCEPT !.i = @ + batchSize])))
    /\ fired' = 0
    /\ received' = <<>>

\* The socket emits 'error' after it was connected.
SocketError ==
    /\ socket = "open"
    /\ Becomes(Resume(OnError(Cur)))
    /\ fired' = 0
    /\ received' = <<>>

\* The peer ends the stream: 'end' and 'close' without 'error'.  The
\* connection registers no handler for either.
SocketEnd ==
    /\ socket = "open"
    /\ Becomes([Cur EXCEPT !.socket = "ended", !.unanswered = {}])
    /\ fired' = 0
    /\ received' = <<>>

Next ==
    \/ connectAndLoad
    \/ FetchHistory
    \/ ForeignRequest
    \/ Start
    \/ Connected
    \/ ConnectFailed
    \/ Data
    \/ Timeout
    \/ Delay
    \/ SocketError
    \/ SocketEnd

Spec == Init /\ [][Next]_vars

(***************************************************************************)
(* The handlers under the scheduling of the event loop: a request that has *)
(* arrived is handled, a connection attempt ends in 'connect' or 'error',  *)
(* and a timer that was set and not cleared fires.  Nothing is assumed of  *)
(* the indexer: it may never answer.                                       *)
(***************************************************************************)
\* The step of Timeout, told by the id it leaves in `fired`.
TimerFires ==
    /\ timers # EmptyMap
    /\ fired' = Min(DOMAIN timers)

\* The step of Delay: the wait for the pacing timer ends, and the loop sends
\* its next batch or is over.
PacingTimerFires ==
    /\ pc = "delay"
    /\ pc' \in {"fanout", "done"}

LiveSpec ==
    /\ Init
    /\ [][Next]_vars
    /\ WF_vars(Start)
    /\ WF_vars(Connected \/ ConnectFailed)
    /\ WF_fired(TimerFires)
    /\ WF_pc(PacingTimerFires)

(***************************************************************************)
(* ElectrumClient, the WebSocket client, driven by an owner that calls     *)
(* connect, getScriptHashBalance, getBatchBalances and disconnect in any   *)
(* order.  connect is called while no socket of an earlier connect is      *)
(* still alive.                                                            *)
(***************************************************************************)
\* The largest number of calls of getScriptHashBalance.
MaxCalls == 3

ClientInit == Init /\ xpubInput = 0 /\ op = "balance"

\* connect(): new WebSocket(wsUrl) and its four handlers.
ClientConnect ==
    /\ clientSocket \in {"none", "closed"}
    /\ clientWs' = "socket"
    /\ clientSocket' = "connecting"
    /\ UNCHANGED << baseVars, shareVars, feedVars, pageVars, clientRequestId, clientPending,
                    clientTimers, clientCalls, clientRefused, clientWire >>

\* ws.onopen: the promise of connect() resolves.
ClientOnOpen ==
    /\ clientSocket = "connecting"
    /\ clientSocket' = "open"
    /\ UNCHANGED << baseVars, shareVars, feedVars, pageVars, clientWs, clientRequestId,
                    clientPending, clientTimers, clientCalls, clientRefused,
                    clientWire >>

\* ws.onerror: the connection failed or was lost; the promise of connect()
\* is rejected (a no-op once it is settled).  The close event follows.
ClientOnError ==
    /\ clientSocket \in {"connecting", "open"}
    /\ clientSocket' = "failed"
    /\ clientWire' = {}
    /\ UNCHANGED << baseVars, shareVars, feedVars, pageVars, clientWs, clientRequestId,
                    clientPending, clientTimers, clientCalls, clientRefused >>

\* request(method, params) called n times in one turn, as getBatchBalances
\* does through scriptHashes.map: each call throws unless the socket is
\* open, and otherwise takes the next id, sets its timer, registers its
\* pending entry and sends.
ClientRequests(n) ==
    IF clientWs = "null" \/ clientSocket # "open"
    THEN /\ clientRefused' = clientRefused + n
         /\ UNCHANGED << clientRequestId, clientPending, clientTimers,
                         clientCalls, clientWire >>
    ELSE LET ids == (clientRequestId + 1)..(clientRequestId + n)
         IN  /\ clientRequestId' = clientRequestId + n
             /\ clientPending' = clientPending \cup ids
             /\ clientTimers' = clientTimers \cup ids
             /\ clientCalls' =
                   [id \in DOMAIN clientCalls \cup ids |->
                       IF id \in ids THEN "pending" ELSE clientCalls[id]]
             /\ clientWire' = clientWire \cup ids
             /\ UNCHANGED clientRefused

\* getScriptHashBalance(scriptHash)
getScriptHashBalance ==
    /\ clientRequestId + clientRefused + 1 <= MaxCalls
    /\ ClientRequests(1)
    /\ UNCHANGED << baseVars, shareVars, feedVars, pageVars, clientWs, clientSocket >>

\* getBatchBalances of two script hashes.
getBatchBalances ==
    /\ clientRequestId + clientRefused + 2 <= MaxCalls
    /\ ClientRequests(2)
    /\ UNCHANGED << baseVars, shareVars, feedVars, pageVars, clientWs, clientSocket >>

\* ws.onmessage: the response to request id, a result or an error, or a
\* message that does not parse.  A response whose id is not pending is
\* ignored.
ClientOnMessage ==
    /\ clientSocket = "open"
    /\ \/ \E id \in clientWire, kind \in {"result", "rpcerror"} :
            /\ clientWire' = clientWire \ {id}
            /\ IF id \in clientPending
               THEN /\ clientPending' = clientPending \ {id}
                    /\ clientTimers' = clientTimers \ {id}
                    /\ clientCalls' = [clientCalls EXCEPT ![id] = kind]
               ELSE UNCHANGED << clientPending, clientTimers, clientCalls >>
       \/ UNCHANGED << clientWire, clientPending, clientTimers, clientCalls >>
    /\ UNCHANGED << baseVars, shareVars, feedVars, pageVars, clientWs, clientSocket,
                    clientRequestId, clientRefused >>

\* The setTimeout callback of request id: timers of equal duration fire in
\* the order they were set.
ClientTimeout ==
    /\ clientTimers # {}
    /\ LET id == Min(clientTimers)
       IN  /\ clientTimers' = clientTimers \ {id}
           /\ clientPending' = clientPending \ {id}
           /\ clientCalls' = [clientCalls EXCEPT ![id] = "timeout"]
    /\ UNCHANGED << baseVars, shareVars, feedVars, pageVars, clientWs, clientSocket,
                    clientRequestId, clientRefused, clientWire >>

\* disconnect(): ws.close(), this.ws = null, pendingRequests.clear().
ClientDisconnect ==
    /\ IF clientWs = "socket"
       THEN /\ clientSocket' = IF clientSocket = "connecting" THEN "failed"
                               ELSE IF clientSocket = "open" THEN "closing"
                               ELSE clientSocket
            /\ clientWs' = "null"
       ELSE UNCHANGED << clientWs, clientSocket >>
    /\ clientPending' = {}
    /\ clientWire' = {}
    /\ UNCHANGED << baseVars, shareVars, feedVars, pageVars, clientRequestId, clientTimers,
                    clientCalls, clientRefused >>

\* ws.onclose: every entry of pendingRequests is rejected with 'Connection
\* closed' (which clears its timer), and the map is cleared.
ClientOnClose ==
    /\ clientSocket \in {"open", "failed", "closing"}
    /\ clientSocket' = "closed"
    /\ clientCalls' = [id \in DOMAIN clientCalls |->
                          IF id \in clientPending THEN "closed"
                          ELSE clientCalls[id]]
    /\ clientTimers' = clientTimers \ clientPending
    /\ clientPending' = {}
    /\ clientWire' = {}
    /\ UNCHANGED << baseVars, shareVars, feedVars, pageVars, clientWs, clientRequestId,
                    clientRefused >>

ClientNext ==
    \/ ClientConnect
    \/ ClientOnOpen
    \/ ClientOnError
    \/ getScriptHashBalance
    \/ getBatchBalances
    \/ ClientOnMessage
    \/ ClientTimeout
    \/ ClientDisconnect
    \/ ClientOnClose

ClientSpec == ClientInit /\ [][ClientNext]_vars

(***************************************************************************)
(* The price feed and the page that owns it.  KrakenPriceService keeps one *)
(* WebSocket in this.ws and reconnects 3 s after an 'error' or a 'close';  *)
(* the page connects (connectAndLoad), refreshes its balance every 60 s    *)
(* and disconnects.  The server's answers to the page's fetches are drawn  *)
(* as succeeding or failing.                                               *)
(***************************************************************************)
\* The largest number of WebSockets the service makes.
MaxSockets == 4

\* The largest number of calls of connectAndLoad.
MaxRuns == 2

\* The largest number of fetches of one kind in flight outside connectAndLoad.
MaxFetches == 1

PageInit ==
    /\ Init
    /\ xpubInput = 0
    /\ op = "balance"

\* The fields of the service as one record, so that the calls of one turn
\* compose.
Feed ==
    [ ws |-> feedWs, sockets |-> feedSockets, isConnecting |-> isConnecting,
      reconnectTimeout |-> reconnectTimeout,
      rateRefreshInterval |-> rateRefreshInterval,
      live |-> liveRateIntervals ]

FeedBecomes(f) ==
    /\ feedWs' = f.ws
    /\ feedSockets' = f.sockets
    /\ isConnecting' = f.isConnecting
    /\ reconnectTimeout' = f.reconnectTimeout
    /\ rateRefreshInterval' = f.rateRefreshInterval
    /\ liveRateIntervals' = f.live

\* connect(): nothing while a connection attempt is under way (the promise
\* returned is already resolved: promise 0); otherwise a new WebSocket, whose
\* 'open' resolves and whose 'error' rejects the promise returned.
KrakenConnect(f) ==
    IF f.isConnecting THEN [feed |-> f, promise |-> 0]
    ELSE LET s == Len(f.sockets) + 1
         IN  [feed |-> [f EXCEPT !.isConnecting = TRUE,
                                 !.sockets = Append(@, "connecting"),
                                 !.ws = s],
              promise |-> s]

\* Whether connect() can be called within the bound on the sockets.
CanConnect(f) == f.isConnecting \/ Len(f.sockets) < MaxSockets

scheduleReconnect(f) ==
    IF f.reconnectTimeout THEN f ELSE [f EXCEPT !.reconnectTimeout = TRUE]

\* WebSocket.close(): a socket that has not opened fails ('error', then
\* 'close'); an open one closes ('close').
CloseSocket(state) ==
    IF state = "connecting" THEN "failing"
    ELSE IF state = "open" THEN "closing"
    ELSE state

\* disconnect() of the service.
KrakenDisconnect(f) ==
    [f EXCEPT
        !.reconnectTimeout = FALSE,
        !.live = IF f.rateRefreshInterval # 0
                 THEN @ \ {f.rateRefreshInterval} ELSE @,
        !.rateRefreshInterval = 0,
        !.sockets = IF f.ws # 0 THEN [@ EXCEPT ![f.ws] = CloseSocket(@)]
                    ELSE @,
        !.ws = 0]

\* connectAndLoad after `await krakenService.connect()`: subscribe to the
\* prices and start the 60 s balance refresh.
PageTail ==
    /\ callbacks' = callbacks + 1
    /\ unsubscribePrice' = TRUE
    /\ refreshInterval' = runs
    /\ liveRefreshIntervals' = liveRefreshIntervals \cup {runs}
    /\ isLoading' = FALSE
    /\ pagePc' = "idle"
    /\ pageAwait' = 0

\* The catch and finally blocks of connectAndLoad.
PageCatch ==
    /\ isConnected' = FALSE
    /\ isLoading' = FALSE
    /\ pagePc' = "idle"
    /\ pageAwait' = 0

\* connectAndLoad up to `await fetchBalance()`; an input that does not
\* validate throws.
PageConnectAndLoad ==
    /\ ~isConnected /\ ~isLoading
    /\ runs < MaxRuns
    /\ runs' = runs + 1
    /\ disconnected' = FALSE
    /\ \E valid \in BOOLEAN :
          IF valid
          THEN /\ isLoading' = TRUE
               /\ hasScriptHashes' = TRUE
               /\ pagePc' = "balance"
               /\ UNCHANGED << isConnected, pageAwait >>
          ELSE /\ PageCatch
               /\ UNCHANGED hasScriptHashes
    /\ UNCHANGED << baseVars, shareVars, clientVars, feedVars, btcBalance,
                    pageBalances, historyData, refreshInterval,
                    liveRefreshIntervals, unsubscribePrice, balanceFetches,
                    historyFetches >>

\* The first fetchBalance of connectAndLoad completes.  When it failed,
\* connectAndLoad ends in its catch block; otherwise the page is connected,
\* fetchHistory is started and krakenService.connect() is awaited.
PageBalanceFetched ==
    /\ pagePc = "balance"
    /\ \E ok \in BOOLEAN :
          IF ~ok
          THEN /\ PageCatch
               /\ UNCHANGED << feedVars, btcBalance, pageBalances,
                               historyFetches, refreshInterval,
                               liveRefreshIntervals, unsubscribePrice >>
          ELSE /\ CanConnect(Feed)
               /\ btcBalance' = 1
               /\ pageBalances' = <<1>>
               /\ isConnected' = TRUE
               /\ IF hasScriptHashes
                  THEN /\ historyFetches < MaxFetches
                       /\ historyFetches' = historyFetches + 1
                  ELSE UNCHANGED historyFetches
               /\ feedStopped' = FALSE
               /\ LET call == KrakenConnect(Feed)
                  IN  /\ FeedBecomes(call.feed)
                      /\ IF call.promise = 0
                         THEN PageTail
                         ELSE /\ pagePc' = "feed"
                              /\ pageAwait' = call.promise
                              /\ UNCHANGED << callbacks, unsubscribePrice,
                                              refreshInterval,
                                              liveRefreshIntervals,
                                              isLoading >>
    /\ UNCHANGED << baseVars, shareVars, clientVars, hasScriptHashes,
                    historyData, balanceFetches, runs, disconnected >>

\* ws.onopen.  this.ws!.send throws when this.ws is null or has not opened,
\* which ends the handler before it sets the interval and resolves the
\* promise.
KrakenOnOpen ==
    \E s \in 1..Len(feedSockets) :
       /\ feedSockets[s] = "connecting"
       /\ LET f0 == [Feed EXCEPT !.sockets[s] = "open", !.isConnecting = FALSE]
              throws == f0.ws = 0 \/ f0.sockets[f0.ws] = "connecting"
          IN  IF throws
              THEN /\ FeedBecomes(f0)
                   /\ UNCHANGED << callbacks, pageVars >>
              ELSE /\ FeedBecomes([f0 EXCEPT !.rateRefreshInterval = s,
                                             !.live = @ \cup {s}])
                   /\ IF pagePc = "feed" /\ pageAwait = s
                      THEN /\ PageTail
                           /\ UNCHANGED << isConnected, hasScriptHashes,
                                           btcBalance, pageBalances,
                                           historyData, balanceFetches,
                                           historyFetches, runs, disconnected >>
                      ELSE UNCHANGED << callbacks, pageVars >>
       /\ UNCHANGED << baseVars, shareVars, clientVars, feedStopped >>

\* A socket failed to connect, was closed before it opened, or broke: the
\* task that closes it fires 'error' and then 'close'.  ws.onerror rejects
\* the promise, whose continuation runs before ws.onclose does.
KrakenOnError ==
    \E s \in 1..Len(feedSockets) :
       /\ feedSockets[s] \in {"connecting", "failing", "open"}
       /\ LET onerror == scheduleReconnect(
                  [Feed EXCEPT !.sockets[s] = "closed", !.isConnecting = FALSE])
              onclose == scheduleReconnect(
                  [onerror EXCEPT !.isConnecting = FALSE])
          IN  FeedBecomes(onclose)
       /\ IF pagePc = "feed" /\ pageAwait = s
          THEN /\ PageCatch
               /\ UNCHANGED << hasScriptHashes, btcBalance, pageBalances,
                               historyData, refreshInterval,
                               liveRefreshIntervals, unsubscribePrice,
                               balanceFetches, historyFetches, runs,
                               disconnected >>
          ELSE UNCHANGED pageVars
       /\ UNCHANGED << baseVars, shareVars, clientVars, callbacks,
                       feedStopped >>

\* ws.onclose of a socket that was closed after it had opened.
KrakenOnClose ==
    \E s \in 1..Len(feedSockets) :
       /\ feedSockets[s] \in {"closing", "open"}
       /\ FeedBecomes(scheduleReconnect(
              [Feed EXCEPT !.sockets[s] = "closed", !.isConnecting = FALSE]))
       /\ UNCHANGED << baseVars, shareVars, clientVars, callbacks,
                       feedStopped, pageVars >>

\* The reconnect timer fires.
KrakenReconnect ==
    /\ reconnectTimeout
    /\ CanConnect(Feed)
    /\ FeedBecomes(KrakenConnect([Feed EXCEPT !.reconnectTimeout = FALSE]).feed)
    /\ UNCHANGED << baseVars, shareVars, clientVars, callbacks, feedStopped,
                    pageVars >>

\* disconnect() of the page, from the DISCONNECT button.
PageDisconnect ==
    /\ isConnected
    /\ refreshInterval' = 0
    /\ liveRefreshIntervals' =
          IF refreshInterval # 0 THEN liveRefreshIntervals \ {refreshInterval}
          ELSE liveRefreshIntervals
    /\ unsubscribePrice' = FALSE
    /\ callbacks' = IF unsubscribePrice /\ callbacks > 0 THEN callbacks - 1
                    ELSE callbacks
    /\ FeedBecomes(KrakenDisconnect(Feed))
    /\ feedStopped' = TRUE
    /\ isConnected' = FALSE
    /\ btcBalance' = 0
    /\ pageBalances' = <<>>
    /\ hasScriptHashes' = FALSE
    /\ historyData' = <<>>
    /\ disconnected' = TRUE
    /\ UNCHANGED << baseVars, shareVars, clientVars, isLoading, pagePc,
                    pageAwait, balanceFetches, historyFetches, runs >>

\* A balance-refresh interval fires: fetchBalance up to its fetch.
RefreshTick ==
    /\ liveRefreshIntervals # {}
    /\ IF hasScriptHashes
       THEN /\ balanceFetches < MaxFetches
            /\ balanceFetches' = balanceFetches + 1
       ELSE UNCHANGED balanceFetches
    /\ UNCHANGED << baseVars, shareVars, clientVars, feedVars, isConnected,
                    isLoading, pagePc, pageAwait, hasScriptHashes, btcBalance,
                    pageBalances, historyData, refreshInterval,
                    liveRefreshIntervals, unsubscribePrice, historyFetches,
                    runs, disconnected >>

\* fetchBalance of the interval after its fetch.
IntervalBalanceFetched ==
    /\ balanceFetches > 0
    /\ balanceFetches' = balanceFetches - 1
    /\ \E ok \in BOOLEAN :
          IF ok
          THEN /\ btcBalance' = 1
               /\ pageBalances' = <<1>>
          ELSE UNCHANGED << btcBalance, pageBalances >>
    /\ UNCHANGED << baseVars, shareVars, clientVars, feedVars, isConnected,
                    isLoading, pagePc, pageAwait, hasScriptHashes, historyData,
                    refreshInterval, liveRefreshIntervals, unsubscribePrice,
                    historyFetches, runs, disconnected >>

\* fetchHistory after its fetch.
HistoryFetched ==
    /\ historyFetches > 0
    /\ historyFetches' = historyFetches - 1
    /\ \E ok \in BOOLEAN :
          IF ok THEN historyData' = <<1>> ELSE UNCHANGED historyData
    /\ UNCHANGED << baseVars, shareVars, clientVars, feedVars, isConnected,
                    isLoading, pagePc, pageAwait, hasScriptHashes, btcBalance,
                    pageBalances, refreshInterval, liveRefreshIntervals,
                    unsubscribePrice, balanceFetches, runs, disconnected >>

PageNext ==
    \/ PageConnectAndLoad
    \/ PageBalanceFetched
    \/ KrakenOnOpen
    \/ KrakenOnError
    \/ KrakenOnClose
    \/ KrakenReconnect
    \/ PageDisconnect
    \/ RefreshTick
    \/ IntervalBalanceFetched
    \/ HistoryFetched

PageSpec == PageInit /\ [][PageNext]_vars

(***************************************************************************)
(* The byte stream followed chunk by chunk.  The page tracks one address   *)
(* and asks for its history; the server's text reaches the 'data' handler  *)
(* in chunks that hold whole lines, lines that are no response, and lines  *)
(* cut in two.                                                             *)
(***************************************************************************)
\* The largest number of lines in one chunk.
MaxLines == 2

\* The lines the server can send while the requests avail are unanswered.
LinesOf(avail, junk) ==
    { <<Text("whole", id, kind), NL>> : id \in avail, kind \in {"result", "error"} }
    \cup junk

\* The lines that are no response, and the blank line.
JunkLines ==
    { <<Text("junk", 0, kind), NL>> : kind \in JunkKinds } \cup { <<NL>> }

\* The texts of at most n lines, each request answered at most once.
RECURSIVE LineSeqs(_, _, _)
LineSeqs(n, avail, junk) ==
    IF n = 0 THEN { <<>> }
    ELSE { <<>> } \cup
         UNION { { line \o rest :
                     rest \in LineSeqs(n - 1, avail \ {line[1].id}, junk) }
                 : line \in LinesOf(avail, junk) }

StreamInit ==
    /\ Init
    /\ xpubInput = AddressOf(1)
    /\ op = "history"

\* 'data': the next chunk of the stream.  Either the first part of a
\* response and nothing else, or the rest of the line begun in the buffer,
\* if any, followed by whole lines: responses, and the lines of junk.
DataChunkOf(junk) ==
    /\ socket = "open"
    /\ \/ /\ buffer = <<>>
          /\ \E id \in unanswered, kind \in {"result", "error"} :
                LET chunk == <<Text("head", id, kind)>>
                IN  /\ Becomes(Resume(OnChunk(Cur, chunk)))
                    /\ received' = chunk
       \/ LET begun == IF buffer = <<>> THEN {} ELSE {buffer[1].id}
               rest == IF buffer = <<>> THEN <<>>
                       ELSE <<Text("tail", buffer[1].id, buffer[1].kind), NL>>
           IN  \E lines \in LineSeqs(MaxLines, unanswered \ begun, junk) :
                  /\ rest \o lines # <<>>
                  /\ Becomes(Resume(OnChunk(Cur, rest \o lines)))
                  /\ received' = rest \o lines
    /\ fired' = 0

\* A chunk of a stream that also carries text that is no response.
DataChunk == DataChunkOf(JunkLines)

\* A chunk of a stream of responses.
ResponseChunk == DataChunkOf({})

StreamNext ==
    \/ connectAndLoad
    \/ FetchHistory
    \/ Start
    \/ Connected
    \/ ConnectFailed
    \/ DataChunk
    \/ Timeout
    \/ SocketError
    \/ SocketEnd

StreamSpec == StreamInit /\ [][StreamNext]_vars

(***************************************************************************)
(* The byte stream of a balance operation over an XPUB: the requests of    *)
(* all script hashes are in flight together, and one chunk may hold the    *)
(* responses to several of them.                                           *)
(***************************************************************************)
FramingInit ==
    /\ Init
    /\ xpubInput = XPUB
    /\ addressCount = 1
    /\ op = "balance"

FramingNext ==
    \/ connectAndLoad
    \/ Start
    \/ Connected
    \/ ConnectFailed
    \/ ResponseChunk
    \/ Timeout
    \/ SocketError
    \/ SocketEnd

FramingSpec == FramingInit /\ [][FramingNext]_vars

\* ---- the state of the share store, of the page that shares and of the
\* ---- browser that opens the link, when nothing has been shared yet
ShareInit ==
    /\ Init
    /\ xpubInput = XPUB
    /\ addressCount = 1
    /\ op = "history"

\* Date.now() read a second time in one call: the clock may have moved on
\* since the first read.
Later(now) == { t \in {now, now + Day} : t <= MaxDays * Day }

\* The time-to-live of a share passes.
Week ==
    /\ clock + DEFAULT_TTL_MS <= MaxDays * Day
    /\ clock' = clock + DEFAULT_TTL_MS
    /\ created' = NoCall
    /\ returned' = NoRead
    /\ UNCHANGED << baseVars, clientVars, feedVars, pageVars, shareStore, shareRequest, shareResponse, sharePc,
                    shareKey, shareLink, openPc, location, sessionStorage >>

\* A day passes.
Tick ==
    /\ clock + Day <= MaxDays * Day
    /\ clock' = clock + Day
    /\ created' = NoCall
    /\ returned' = NoRead
    /\ UNCHANGED << baseVars, clientVars, feedVars, pageVars, shareStore, shareRequest, shareResponse, sharePc,
                    shareKey, shareLink, openPc, location, sessionStorage >>

\* createShareLink up to its fetch.
createShareLink ==
    /\ pc = "connected"
    /\ ScriptHashesOf(derivedAddresses) # <<>>
    /\ sharePc # "posting"
    /\ shareRequest = NoRequest /\ shareResponse = NoResponse
    /\ \E key \in Keys, iv \in Ivs :
          LET payload == SharePayloadOf(ScriptHashesOf(derivedAddresses), clock)
              sealed == encryptSharePayload(payload, key, iv)
          IN  IF sealed.thrown
              THEN /\ sharePc' = "idle"
                   /\ UNCHANGED << shareRequest, shareKey >>
              ELSE /\ sharePc' = "posting"
                   /\ shareKey' = sealed.key
                   /\ shareRequest' =
                         [method |-> "POST",
                          path |-> << <<"seg", "api">>, <<"seg", "share">> >>,
                          query |-> <<>>,
                          body |-> sealed.encrypted]
    /\ shareLink' = NoLink
    /\ created' = NoCall
    /\ returned' = NoRead
    /\ UNCHANGED << baseVars, clientVars, feedVars, pageVars, clock, shareStore, shareResponse, openPc,
                    location, sessionStorage >>

\* What a client other than the page has encrypted: no share payload.
ForeignPlaintext == SharePayloadOf(<<>>, 0)

\* A client other than the page posts to /api/share: a body of another
\* version, or a well-formed body with a field the route does not know.
ForeignPost ==
    /\ shareRequest = NoRequest /\ shareResponse = NoResponse
    /\ sharePc # "posting" /\ openPc \notin {"navigating", "fetching"}
    /\ \E key \in Keys, iv \in Ivs, v \in {1, 2} :
          shareRequest' =
              [method |-> "POST",
               path |-> << <<"seg", "api">>, <<"seg", "share">> >>,
               query |-> <<>>,
               body |-> [v |-> <<"v", v>>, iv |-> iv,
                         ciphertext |-> Encrypt(ForeignPlaintext, key, iv),
                         note |-> <<"seg", "note">>]]
    /\ created' = NoCall
    /\ returned' = NoRead
    /\ UNCHANGED << baseVars, clientVars, feedVars, pageVars, clock, shareStore, shareResponse, sharePc,
                    shareKey, shareLink, openPc, location, sessionStorage >>

\* POST /api/share
PostShare ==
    /\ shareRequest.method = "POST"
    /\ LET posted == shareRequest.body
       IN  IF \/ {"v", "iv", "ciphertext"} \ DOMAIN posted # {}
              \/ posted.v # <<"v", 1>>
              \/ posted.iv[1] # "iv"
              \/ posted.ciphertext[1] # "ct"
           THEN /\ shareResponse' =
                      [status |-> 400, body |-> [error |-> <<"seg", "invalid">>]]
                /\ created' = NoCall
                /\ UNCHANGED shareStore
           ELSE \E id \in Ids :
                  LET payload == [v |-> <<"v", 1>>, iv |-> posted.iv,
                                  ciphertext |-> posted.ciphertext, ttlMs |-> <<>>]
                      call == createShareRecord(shareStore, payload, clock, clock, id)
                  IN  /\ shareStore' = call.store
                      /\ created' = [ttlMs |-> <<>>, thrown |-> call.thrown,
                                     record |-> call.record]
                      /\ shareResponse' =
                            IF call.thrown
                            THEN [status |-> 400,
                                  body |-> [error |-> <<"seg", "invalid">>]]
                            ELSE [status |-> 200,
                                  body |-> [id |-> call.record[1].id,
                                            expiresAt |-> call.record[1].expiresAt,
                                            ttlMs |-> DEFAULT_TTL_MS]]
    /\ shareRequest' = NoRequest
    /\ returned' = NoRead
    /\ UNCHANGED << baseVars, clientVars, feedVars, pageVars, clock, sharePc, shareKey, shareLink, openPc,
                    location, sessionStorage >>

\* A call of createShareRecord with a ttlMs: zero, a negative number, a
\* day, and more than seven days.
CreateShareRecord ==
    /\ \E ttlMs \in { <<0>>, <<0 - Day>>, <<Day>>, <<DEFAULT_TTL_MS + Day>> },
          now \in Later(clock), id \in Ids, iv \in Ivs, key \in Keys :
          LET payload == [v |-> <<"v", 1>>, iv |-> iv,
                          ciphertext |-> Encrypt(ForeignPlaintext, key, iv),
                          ttlMs |-> ttlMs]
              call == createShareRecord(shareStore, payload, clock, now, id)
          IN  /\ clock' = now
              /\ shareStore' = call.store
              /\ created' = [ttlMs |-> ttlMs, thrown |-> call.thrown,
                             record |-> call.record]
    /\ returned' = NoRead
    /\ UNCHANGED << baseVars, clientVars, feedVars, pageVars, shareRequest, shareResponse, sharePc, shareKey,
                    shareLink, openPc, location, sessionStorage >>

\* A call of getShareRecord.
GetShareRecord ==
    /\ \E id \in Ids, now \in Later(clock) :
          LET read == getShareRecord(shareStore, id, clock, now)
          IN  /\ clock' = now
              /\ shareStore' = read.store
              /\ returned' = [record |-> read.record, now |-> now]
    /\ created' = NoCall
    /\ UNCHANGED << baseVars, clientVars, feedVars, pageVars, shareRequest, shareResponse, sharePc, shareKey,
                    shareLink, openPc, location, sessionStorage >>

\* createShareLink after its fetch.
ShareCreated ==
    /\ sharePc = "posting"
    /\ shareResponse # NoResponse
    /\ IF shareResponse.status = 200 /\ "id" \in DOMAIN shareResponse.body
       THEN /\ shareLink' = ShareLinkOf(shareResponse.body.id, shareKey[1])
            /\ sharePc' = "linked"
       ELSE /\ shareLink' = NoLink
            /\ sharePc' = "idle"
    /\ shareKey' = <<>>
    /\ shareResponse' = NoResponse
    /\ created' = NoCall
    /\ returned' = NoRead
    /\ UNCHANGED << baseVars, clientVars, feedVars, pageVars, clock, shareStore, shareRequest, openPc, location,
                    sessionStorage >>

\* A browser is given the link and loads it.
OpenLink ==
    /\ shareLink # NoLink
    /\ openPc \in {"closed", "opened", "failed"}
    /\ shareRequest = NoRequest /\ shareResponse = NoResponse
    /\ location' = shareLink
    /\ shareRequest' = Navigation(shareLink)
    /\ openPc' = "navigating"
    /\ created' = NoCall
    /\ returned' = NoRead
    /\ UNCHANGED << baseVars, clientVars, feedVars, pageVars, clock, shareStore, shareResponse, sharePc,
                    shareKey, shareLink, sessionStorage >>

\* The server answers with the share page, data.shareId being the id in the
\* path.
ServePage ==
    /\ shareRequest.method = "GET"
    /\ shareRequest.path[1] = <<"seg", "share">>
    /\ shareResponse' = [status |-> 200, body |-> [shareId |-> shareRequest.path[2]]]
    /\ shareRequest' = NoRequest
    /\ created' = NoCall
    /\ returned' = NoRead
    /\ UNCHANGED << baseVars, clientVars, feedVars, pageVars, clock, shareStore, sharePc, shareKey, shareLink,
                    openPc, location, sessionStorage >>

\* onMount of the share page up to its fetch.
onMount ==
    /\ openPc = "navigating"
    /\ shareResponse # NoResponse
    /\ LET key == parseShareKeyFromHash(location.fragment)
       IN  IF key = <<>>
           THEN /\ openPc' = "failed"
                /\ shareRequest' = NoRequest
           ELSE /\ openPc' = "fetching"
                /\ shareRequest' =
                      [method |-> "GET",
                       path |-> << <<"seg", "api">>, <<"seg", "share">>,
                                   shareResponse.body.shareId >>,
                       query |-> <<>>, body |-> EmptyMap]
    /\ shareResponse' = NoResponse
    /\ created' = NoCall
    /\ returned' = NoRead
    /\ UNCHANGED << baseVars, clientVars, feedVars, pageVars, clock, shareStore, sharePc, shareKey, shareLink,
                    location, sessionStorage >>

\* GET /api/share/[id]
GetShare ==
    /\ shareRequest.method = "GET"
    /\ shareRequest.path[1] = <<"seg", "api">>
    /\ LET id == shareRequest.path[3]
       IN  IF id[1] # "id"
           THEN /\ shareResponse' =
                      [status |-> 400, body |-> [error |-> <<"seg", "invalid">>]]
                /\ returned' = NoRead
                /\ UNCHANGED shareStore
           ELSE LET read == getShareRecord(shareStore, id, clock, clock)
                IN  /\ shareStore' = read.store
                    /\ returned' = [record |-> read.record, now |-> clock]
                    /\ shareResponse' =
                          IF read.record = <<>>
                          THEN [status |-> 404,
                                body |-> [error |-> <<"seg", "expired">>]]
                          ELSE [status |-> 200,
                                body |-> [v |-> read.record[1].v,
                                          iv |-> read.record[1].iv,
                                          ciphertext |-> read.record[1].ciphertext,
                                          expiresAt |-> read.record[1].expiresAt]]
    /\ shareRequest' = NoRequest
    /\ created' = NoCall
    /\ UNCHANGED << baseVars, clientVars, feedVars, pageVars, clock, sharePc, shareKey, shareLink, openPc,
                    location, sessionStorage >>

\* onMount of the share page after its fetch.
onMountResume ==
    /\ openPc = "fetching"
    /\ shareResponse # NoResponse
    /\ LET key == parseShareKeyFromHash(location.fragment)
           decrypted == IF shareResponse.status = 200
                        THEN decryptSharePayload(shareResponse.body, key[1])
                        ELSE <<>>
       IN  IF decrypted = <<>>
           THEN /\ openPc' = "failed"
                /\ UNCHANGED << location, sessionStorage >>
           ELSE /\ openPc' = "opened"
                /\ sessionStorage' = decrypted
                /\ location' = [location EXCEPT !.fragment = <<>>]
    /\ shareResponse' = NoResponse
    /\ created' = NoCall
    /\ returned' = NoRead
    /\ UNCHANGED << baseVars, clientVars, feedVars, pageVars, clock, shareStore, shareRequest, sharePc,
                    shareKey, shareLink >>

ShareNext ==
    \/ connectAndLoad
    \/ Week
    \/ createShareLink
    \/ ForeignPost
    \/ PostShare
    \/ ShareCreated
    \/ OpenLink
    \/ ServePage
    \/ onMount
    \/ GetShare
    \/ onMountResume

ShareSpec == ShareInit /\ [][ShareNext]_vars

\* The share store called with any ttlMs, for any id, at any time.
StoreNext ==
    \/ Tick
    \/ CreateShareRecord
    \/ GetShareRecord

StoreSpec == ShareInit /\ [][StoreNext]_vars

(***************************************************************************)
(* Properties.                                                             *)
(***************************************************************************)
\* What a worker returns for item when its own request is answered with
\* the server's result for that very request.
Expected(ph, item) ==
    WorkerTry(ph, item, ServerResult([method |-> Method(ph), params |-> item]))

\* The worker RPCs registered in the pending map.
InFlight == { id \in DOMAIN pendingRequests : pendingRequests[id] # HS }

Ceil(n, b) == (n + b - 1) \div b

\* C1 -- Response routing: whatever the order in which the responses to
\* concurrently pending calls arrive, a call settled by a response is settled
\* by the response carrying its own id, and resolves with the server's result
\* for its own request.
ResponseRouting ==
    /\ \A c \in DOMAIN outcome :
          outcome[c] \in {"result", "rpcerror"} => got[c] = rid[c]
    /\ \A c \in DOMAIN ret :
          outcome[c] = "result" => ret[c] = Expected(c[1], items[c[1]][c[2]])
    /\ \A ph \in DOMAIN results : \A k \in 1..Len(results[ph]) :
          results[ph][k].ok => results[ph][k].ret = Expected(ph, items[ph][k])

\* Two calls were pending together and the later one was answered first.
ResponseRoutingWitness ==
    \E c1 \in DOMAIN outcome, c2 \in DOMAIN outcome :
        /\ rid[c1] < rid[c2]
        /\ outcome[c1] = "pending"
        /\ outcome[c2] = "result"
        /\ got[c2] = rid[c2]

\* C2 -- Timeout isolation: the turn in which the timer of request id fires
\* removes id alone from the pending map and rejects its caller with a
\* timeout; every other pending request keeps its entry, its timer and its
\* place at the server, its caller stays pending, and the socket is left as
\* it is while other requests are pending.
TimeoutIsolation ==
    [][ fired' # 0 =>
          LET id == fired'
              c == timers[id]
          IN  /\ id \in DOMAIN pendingRequests
              /\ id \notin DOMAIN pendingRequests'
              /\ id \notin DOMAIN timers'
              /\ IF c \in DOMAIN outcome'
                 THEN outcome'[c] = "timeout"
                 ELSE ~results'[c[1]][c[2]].ok
              /\ \A j \in (DOMAIN pendingRequests) \ {id} :
                    /\ j \in DOMAIN pendingRequests'
                    /\ pendingRequests'[j] = pendingRequests[j]
                    /\ j \in DOMAIN timers'
                    /\ timers'[j] = timers[j]
                    /\ outcome'[pendingRequests[j]] = "pending"
                    /\ (j \in unanswered => j \in unanswered')
              /\ (DOMAIN pendingRequests # {id} => socket' = socket)
      ]_vars

\* A timer has just fired while a later request of the same fan-out is
\* pending on the open socket and can still be answered.
TimeoutIsolationWitness ==
    /\ op = "balance"
    /\ fired # 0
    /\ socket = "open"
    /\ \E j \in DOMAIN pendingRequests : j > fired /\ j \in unanswered

\* C3 -- On a stream close or a stream error every request pending at that
\* moment is rejected with a connection error and leaves the pending map.
CloseRejectsAllPending ==
    [][ (socket = "open" /\ socket' \in {"errored", "ended"}) =>
          /\ (DOMAIN pendingRequests) \cap (DOMAIN pendingRequests') = {}
          /\ \A c \in DOMAIN outcome :
                (outcome[c] = "pending" /\ c \in DOMAIN outcome')
                    => outcome'[c] = "connerror"
      ]_vars

\* C4 -- Once the stream has closed or errored, a call registers no pending
\* request, sets no timer and allocates no id.
ClosedRejectsCalls ==
    [][ (socket \in {"errored", "ended"}) =>
          /\ requestId' = requestId
          /\ (DOMAIN pendingRequests') \subseteq (DOMAIN pendingRequests)
          /\ (DOMAIN timers') \subseteq (DOMAIN timers)
      ]_vars

\* C5 -- A failed handshake (RPC error, timeout or connection error) ends
\* the operation with an error response, and server.version stays the only
\* request ever issued.
HandshakeFailureIsFatal ==
    (HS \in DOMAIN outcome /\ outcome[HS] \in {"rpcerror", "timeout", "connerror"})
        => /\ pc = "done"
           /\ status = 500
           /\ "error" \in DOMAIN body
           /\ requestId = 1
           /\ \A id \in DOMAIN sent : sent[id].method = "server.version"
           /\ pendingRequests = EmptyMap

\* The handshake has timed out.
HandshakeFailureWitness ==
    /\ HS \in DOMAIN outcome
    /\ outcome[HS] = "timeout"
    /\ pc = "done"

\* C6 -- After a successful handshake the history operation returns a
\* success response carrying a timeline, whichever history, header and
\* transaction fetches failed.
PerItemFailureIsAbsorbed ==
    (op = "history" /\ pc = "done" /\ HS \in DOMAIN outcome /\ outcome[HS] = "result")
        => /\ status = 200
           /\ "history" \in DOMAIN body
           /\ Len(body.history) <= Len(allHistoryItems)

\* A run that lost a header fetch and a transaction fetch and still returned
\* a non-empty timeline.
PerItemFailureWitness ==
    /\ op = "history"
    /\ pc = "done"
    /\ status = 200
    /\ "header" \in DOMAIN results /\ \E k \in 1..Len(results["header"]) : ~results["header"][k].ok
    /\ "tx" \in DOMAIN results /\ \E k \in 1..Len(results["tx"]) : ~results["tx"][k].ok
    /\ Len(body.history) >= 1
    /\ ~errInFlight

\* C7 -- A socket error that hits while worker RPCs are in flight makes the
\* operation return an error.
StreamFailureIsFatal ==
    (errInFlight /\ pc = "done") => status = 500

\* C8 -- Chunk barrier: no worker RPC of a later chunk is issued while the
\* loop is still at an earlier chunk, so at most batchSize worker RPCs are
\* pending at any time.
ChunkBarrier ==
    /\ Cardinality(InFlight) <= batchSize
    /\ pc \in {"fanout", "delay"} =>
          \A c \in DOMAIN rid : c # HS => c[2] <= i + batchSize

\* C9 -- Failure isolation: whichever items fail, every item of every chunk
\* is invoked and yields a result, and an item whose own request succeeded
\* yields what it yields in a run without failures.
FailureIsolation ==
    /\ \A ph \in DOMAIN results :
          /\ \A k \in 1..Len(results[ph]) :
                results[ph][k].ok => results[ph][k].ret = Expected(ph, items[ph][k])
          /\ (ph # phase \/ pc = "done") => Len(results[ph]) = Len(items[ph])
    /\ (op = "balance" /\ pc = "done" /\ "balance" \in DOMAIN results) =>
          /\ status = 200
          /\ Len(body.addresses) = Len(scriptHashes)
          /\ \A k \in 1..Len(scriptHashes) :
                results["balance"][k].ok
                    => body.addresses[k] = Expected("balance", scriptHashes[k])

\* A balance run in which the first item failed and the other item of its
\* chunk and an item of the next chunk kept their results.
FailureIsolationWitness ==
    /\ op = "balance"
    /\ pc = "done"
    /\ status = 200
    /\ Len(scriptHashes) > batchSize
    /\ ~results["balance"][1].ok
    /\ results["balance"][2].ok
    /\ body.addresses[2].balance = 3000
    /\ results["balance"][batchSize + 1].ok

\* C10 -- Chunking arithmetic: a batch loop over n items takes ceil(n/b)
\* slices, each of b items except possibly the last, and takes the pacing
\* delay after every slice but the last (no slice and no delay for n = 0).
ChunkingArithmetic ==
    \A ph \in DOMAIN chunkLog :
        LET n == Len(items[ph])
            c == Ceil(n, batchSize)
            log == chunkLog[ph]
        IN  /\ Len(log) <= c
            /\ \A j \in 1..Len(log) :
                  log[j] = IF j < c THEN batchSize ELSE n - batchSize * (c - 1)
            /\ IF ph = phase /\ pc = "delay"
               THEN delayLog[ph] = Len(log) /\ Len(log) < c
               ELSE delayLog[ph] = (IF Len(log) = 0 THEN 0 ELSE Len(log) - 1)
            /\ (ph # phase \/ pc = "done") =>
                  /\ Len(log) = c
                  /\ delayLog[ph] = (IF n = 0 THEN 0 ELSE c - 1)

\* A finished loop of several slices whose last slice is a short one.
ChunkingArithmeticWitness ==
    \E ph \in DOMAIN chunkLog :
        /\ pc = "done"
        /\ Len(chunkLog[ph]) >= 2
        /\ chunkLog[ph][Len(chunkLog[ph])] < batchSize
        /\ delayLog[ph] = Len(chunkLog[ph]) - 1

\* The item a worker result belongs to.
KeyOf(ph, r) ==
    IF ph \in {"balance", "history"} THEN r.scriptHash
    ELSE IF ph = "header" THEN r.height
    ELSE r.txHash

\* C11 -- Result order: result k of a fan-out belongs to item k of its
\* input, whatever the order in which the responses arrived; entry k of the
\* addresses list of the balance response belongs to script hash k of the
\* request.
ResultOrder ==
    /\ \A ph \in DOMAIN results :
          /\ Len(results[ph]) <= Len(items[ph])
          /\ \A k \in 1..Len(results[ph]) :
                KeyOf(ph, results[ph][k].ret) = items[ph][k]
    /\ (op = "balance" /\ pc = "done" /\ status = 200) =>
          /\ Len(body.addresses) = Len(scriptHashes)
          /\ \A k \in 1..Len(scriptHashes) :
                body.addresses[k].scriptHash = scriptHashes[k]

\* A balance run that ended in the turn in which the request of the first
\* script hash timed out, after the second script hash had been answered:
\* the items settled in an order that is not the input order.
ResultOrderWitness ==
    /\ op = "balance"
    /\ pc = "done"
    /\ status = 200
    /\ fired = 2
    /\ Len(scriptHashes) >= 2
    /\ ~results["balance"][1].ok
    /\ results["balance"][2].ok
    /\ body.addresses[1].scriptHash = scriptHashes[1]
    /\ body.addresses[2].scriptHash = scriptHashes[2]

\* C12 -- Balance degradation: a script hash whose balance RPC failed is
\* reported with confirmed 0 and unconfirmed 0, every other script hash is
\* reported with the balance the indexer gave, and the operation succeeds.
BalanceDegradation ==
    (op = "balance" /\ pc = "done" /\ "balance" \in DOMAIN results) =>
        /\ status = 200
        /\ Len(body.addresses) = Len(scriptHashes)
        /\ \A k \in 1..Len(scriptHashes) :
              IF results["balance"][k].ok
              THEN /\ body.addresses[k].confirmed
                        = ServerBalance(scriptHashes[k]).confirmed
                   /\ body.addresses[k].unconfirmed
                        = ServerBalance(scriptHashes[k]).unconfirmed
              ELSE /\ body.addresses[k].confirmed = 0
                   /\ body.addresses[k].unconfirmed = 0
                   /\ body.addresses[k].balance = 0

\* A balance run without a socket error in which the request of the second
\* script hash failed (RPC error or timeout) and the first one kept its
\* balance.
BalanceDegradationWitness ==
    /\ op = "balance"
    /\ pc = "done"
    /\ status = 200
    /\ ~errInFlight
    /\ socket = "destroyed"
    /\ Len(scriptHashes) >= 2
    /\ ~results["balance"][2].ok
    /\ body.addresses[2].confirmed = 0
    /\ body.addresses[2].unconfirmed = 0
    /\ results["balance"][1].ok
    /\ body.addresses[1].confirmed = 300000000
    /\ body.addresses[1].unconfirmed = 50

\* The sum of confirmed + unconfirmed over a list of per-hash entries.
RECURSIVE SumConfirmedUnconfirmed(_)
SumConfirmedUnconfirmed(addrs) ==
    IF addrs = <<>> THEN 0
    ELSE addrs[Len(addrs)].confirmed + addrs[Len(addrs)].unconfirmed
         + SumConfirmedUnconfirmed(SubSeq(addrs, 1, Len(addrs) - 1))

\* C13 -- Balance total: the total of a balance response is the sum of
\* confirmed + unconfirmed over the per-hash entries it returns, and the
\* balance of each entry is its confirmed + unconfirmed.
BalanceTotal ==
    (op = "balance" /\ pc = "done" /\ status = 200) =>
        /\ body.balance = SumConfirmedUnconfirmed(body.addresses)
        /\ \A k \in 1..Len(body.addresses) :
              body.addresses[k].balance
                  = body.addresses[k].confirmed + body.addresses[k].unconfirmed

\* A balance response over two funded script hashes, one of them with an
\* unconfirmed amount: 300,000,000 + 50 + 3,000.
BalanceTotalWitness ==
    /\ op = "balance"
    /\ pc = "done"
    /\ status = 200
    /\ Len(body.addresses) >= 2
    /\ body.addresses[1].unconfirmed = 50
    /\ body.addresses[2].confirmed = 3000
    /\ body.balance = 300003050

\* The confirmed total the balance operation computes for a list of script
\* hashes when each of its requests is answered.
RECURSIVE ConfirmedTotal(_)
ConfirmedTotal(hashes) ==
    IF hashes = <<>> THEN 0
    ELSE Expected("balance", Head(hashes)).confirmed
         + ConfirmedTotal(Tail(hashes))

\* Every fetch of fan-out ph got its result.
AllOk(ph) ==
    /\ ph \in DOMAIN results
    /\ \A k \in 1..Len(results[ph]) : results[ph][k].ok

RECURSIVE SumSeq(_)
SumSeq(s) == IF s = <<>> THEN 0 ELSE s[Len(s)] + SumSeq(SubSeq(s, 1, Len(s) - 1))

\* The transactions of the chain.
KnownTx == {T1, T2, T3, X1}

\* The sum of the outputs of txid that pay one of the script hashes ours.
OwnedOutputs(txid, ours) ==
    LET outs == ChainTx(txid).outs
    IN  SumSeq([k \in 1..Len(outs) |->
                  IF computeScriptHash(outs[k].script) \in ours
                  THEN outs[k].value ELSE 0])

\* The sum of the previous outputs spent by the inputs of txid that paid one
\* of the script hashes ours, over the previous transactions in resolved.
OwnedSpent(txid, ours, resolved) ==
    LET ins == ChainTx(txid).ins
    IN  SumSeq([k \in 1..Len(ins) |->
                  LET prev == Reverse(ins[k].hash)
                  IN  IF /\ ins[k].hash # ZeroHash
                         /\ prev \in resolved
                         /\ ins[k].index < Len(ChainTx(prev).outs)
                         /\ computeScriptHash(
                                ChainTx(prev).outs[ins[k].index + 1].script) \in ours
                      THEN ChainTx(prev).outs[ins[k].index + 1].value
                      ELSE 0])

\* The history operation has returned a timeline.
Reconstructed == op = "history" /\ pc = "done" /\ status = 200

\* C15 (as claimed) -- Net delta: the netSats of every point is the sum of
\* the owned outputs of its transaction minus the sum of the owned previous
\* outputs its inputs spend, booked on the spending transaction.
NetDelta ==
    Reconstructed =>
        \A k \in 1..Len(body.history) :
            body.history[k].deltaSats
                = OwnedOutputs(body.history[k].txHash, Range(scriptHashes))
                  - OwnedSpent(body.history[k].txHash, Range(scriptHashes), KnownTx)

\* C15 (amended) -- Net delta: the netSats of every point is the sum of the
\* owned outputs of its transaction minus the sum of the owned previous
\* outputs its inputs spend among those whose previous transaction was
\* obtained, booked on the spending transaction.
NetDeltaOfResolved ==
    Reconstructed =>
        \A k \in 1..Len(body.history) :
            body.history[k].deltaSats
                = OwnedOutputs(body.history[k].txHash, Range(scriptHashes))
                  - OwnedSpent(body.history[k].txHash, Range(scriptHashes),
                               DOMAIN prevoutTxCache)

\* T3 spends an owned output of 5,000 and pays 3,000 back: its point carries
\* -2,000, and the point of T2, which created the 5,000, is not reduced by
\* that spend.
NetDeltaWitness ==
    /\ Reconstructed
    /\ T2 \in DOMAIN prevoutTxCache
    /\ \E k \in 1..Len(body.history) :
          body.history[k].txHash = T3 /\ body.history[k].deltaSats = -2000
    /\ \E k \in 1..Len(body.history) :
          /\ body.history[k].txHash = T2
          /\ body.history[k].deltaSats = 300005000 - 625000000

\* C16 -- Coinbase: an input naming the all-zero previous txid yields no
\* prevout reference, no previous-transaction fetch and no subtraction; the
\* coinbase-only transaction T1 with its owned output of 625,000,000 gets
\* netSats +625,000,000.
CoinbaseSkipped ==
    /\ \A k \in 1..Len(prevoutRefs) :
          /\ prevoutRefs[k].txHash # ZeroHash
          /\ prevoutRefs[k].spentInTx # T1
    /\ phase = "prevout" =>
          \A c \in 1..Len(txCache) :
              Cardinality({ k \in 1..Len(prevoutRefs) :
                              prevoutRefs[k].spentInTx = txCache[c].txHash })
                = Cardinality({ k \in 1..Len(txCache[c].tx.ins) :
                                  txCache[c].tx.ins[k].hash # ZeroHash })
    /\ \A id \in DOMAIN sent :
          sent[id].method = "blockchain.transaction.get"
              => sent[id].params # ZeroHash
    /\ Reconstructed =>
          \A k \in 1..Len(body.history) :
              (body.history[k].txHash = T1 /\ 102 \in Range(scriptHashes))
                  => body.history[k].deltaSats = 625000000

\* A finished reconstruction that decoded the coinbase transaction T1 and
\* transactions with ordinary inputs: T1 has a point of +625,000,000 and the
\* references are those of the other transactions.
CoinbaseSkippedWitness ==
    /\ Reconstructed
    /\ \E c \in 1..Len(txCache) : txCache[c].txHash = T1
    /\ prevoutRefs # <<>>
    /\ \E k \in 1..Len(body.history) :
          body.history[k].txHash = T1 /\ body.history[k].deltaSats = 625000000

\* No two positions of s hold the same value.
Distinct(s) == \A j, k \in 1..Len(s) : s[j] = s[k] => j = k

\* The history of answered request k of the history fan-out lists txid as
\* confirmed.
ListsConfirmed(k, txid) ==
    /\ results["history"][k].ok
    /\ \E e \in Range(results["history"][k].ret.history) :
          e.tx_hash = txid /\ e.height > 0

NothingConfirmed ==
    /\ op = "history"
    /\ "history" \in DOMAIN results
    /\ Len(results["history"]) = Len(scriptHashes)
    /\ \A k \in 1..Len(results["history"]) :
          \A e \in Range(results["history"][k].ret.history) : e.height <= 0

\* C18 -- Empty history: when the deduplicated confirmed set is empty (no
\* entries, only unconfirmed entries, or every history fetch failed) the
\* operation returns the empty sequence with a success status and issues no
\* header and no transaction RPC.
EmptyHistory ==
    NothingConfirmed =>
        /\ pc = "done"
        /\ status = 200
        /\ body = [history |-> <<>>]
        /\ \A id \in DOMAIN sent :
              sent[id].method \in {"server.version",
                                   "blockchain.scripthash.get_history"}

\* The histories of 101 and 102 could not be fetched and the history of 103
\* lists nothing but a mempool transaction: the run ends with the empty
\* sequence.
EmptyHistoryWitness ==
    /\ NothingConfirmed
    /\ Len(scriptHashes) >= 3
    /\ ~results["history"][1].ok
    /\ ~results["history"][2].ok
    /\ results["history"][3].ok
    /\ results["history"][3].ret.history # <<>>
    /\ status = 200
    /\ body.history = <<>>

\* C19 -- Output order: the blockHeight of every point of the timeline is
\* greater than or equal to the blockHeight of the point before it.
OutputOrder ==
    Reconstructed =>
        \A k \in 2..Len(body.history) :
            body.history[k].blockHeight >= body.history[k - 1].blockHeight

\* The transactions were discovered out of height order (T2 at height 2
\* through 101, then T1 at height 1 through 102) and the timeline has them
\* by height.
OutputOrderWitness ==
    /\ Reconstructed
    /\ Len(txDetails) >= 2
    /\ txDetails[1].height > txDetails[2].height
    /\ Len(body.history) = Len(txDetails)
    /\ body.history[1].txHash = T1
    /\ body.history[1].blockHeight = 1
    /\ body.history[2].blockHeight = 2

\* What must stay in the browser: the text the user entered (an extended
\* public key or an address) and the addresses derived from it.
Secrets ==
    {xpubInput} \cup { derivedAddresses[k].address : k \in 1..Len(derivedAddresses) }

\* C20 -- Script-hash-only disclosure: a request the page sends to the
\* balance or history endpoint carries the connection settings and the
\* script hashes of the derived addresses and nothing else, and an RPC the
\* server sends to the indexer carries a script hash of the request, a block
\* height or a txid of the histories, or the handshake's client name; none of
\* them carries the XPUB or a derived address.
ScriptHashOnly ==
    /\ (derivedAddresses # <<>> /\ DOMAIN request # {}) =>
          /\ DOMAIN request = {"url", "body"}
          /\ request.url \in {"/api/balance", "/api/history"}
          /\ DOMAIN request.body = {"host", "port", "scriptHashes", "useSsl"}
          /\ request.body.host = electrumHost
          /\ request.body.port = electrumPort
          /\ request.body.useSsl = useSsl
          /\ \A k \in 1..Len(request.body.scriptHashes) :
                /\ request.body.scriptHashes[k]
                      \in { derivedAddresses[j].scriptHash :
                              j \in 1..Len(derivedAddresses) }
                /\ request.body.scriptHashes[k] \notin Secrets
    /\ \A id \in DOMAIN sent :
          LET r == sent[id]
          IN  /\ DOMAIN r = {"id", "method", "params"}
              /\ IF r.method = "server.version"
                 THEN r.params = <<"btc-tracker", "1.4">>
                 ELSE IF r.method \in {"blockchain.scripthash.get_balance",
                                       "blockchain.scripthash.get_history"}
                 THEN r.params \in Range(scriptHashes) /\ r.params \notin Secrets
                 ELSE IF r.method = "blockchain.block.header"
                 THEN /\ r.params \in { allHistoryItems[k].height :
                                          k \in 1..Len(allHistoryItems) }
                      /\ r.params \notin Secrets
                 ELSE /\ r.method = "blockchain.transaction.get"
                      /\ r.params \in
                            { allHistoryItems[k].tx_hash :
                                k \in 1..Len(allHistoryItems) }
                            \cup { prevoutRefs[k].txHash :
                                     k \in 1..Len(prevoutRefs) }

\* A reconstruction for the addresses derived from an extended public key:
\* the page sent the history request, the server sent history, header,
\* transaction and previous-transaction requests to the indexer.
ScriptHashOnlyWitness ==
    /\ xpubInput = XPUB
    /\ Len(derivedAddresses) >= 2
    /\ request.url = "/api/history"
    /\ Reconstructed
    /\ Len(body.history) >= 1
    /\ \E id \in DOMAIN sent : sent[id].method = "blockchain.block.header"
    /\ \E id \in DOMAIN sent :
          /\ sent[id].method = "blockchain.transaction.get"
          /\ sent[id].params \in { prevoutRefs[k].txHash : k \in 1..Len(prevoutRefs) }
          /\ sent[id].params
                \notin { allHistoryItems[k].tx_hash : k \in 1..Len(allHistoryItems) }

\* C23 -- Request ids: the calls of one turn are given the ids that follow
\* the counter, one after the other in call order, so every new id is
\* greater than every id given out before, and no two callers whose requests
\* are pending hold the same id.
RequestIds ==
    [][ /\ requestId' >= requestId
        /\ (DOMAIN sent') \ (DOMAIN sent) = (requestId + 1)..requestId'
        /\ \A id \in DOMAIN sent : id \in DOMAIN sent' /\ sent'[id] = sent[id]
        /\ \A id \in DOMAIN sent' : sent'[id].id = id
        /\ (DOMAIN pendingRequests') \subseteq (DOMAIN sent')
        /\ \A c1, c2 \in DOMAIN rid' :
              /\ c1 # c2 => rid'[c1] # rid'[c2]
              /\ (c1[1] = c2[1] /\ c1[2] < c2[2]) => rid'[c1] < rid'[c2]
        /\ \A id \in DOMAIN pendingRequests' :
              rid'[pendingRequests'[id]] = id
      ]_vars

\* The second chunk of a history fan-out is pending under the two newest
\* ids, after the ids of the first chunk have left the pending map.
RequestIdsWitness ==
    /\ op = "history"
    /\ requestId >= 5
    /\ DOMAIN pendingRequests = {requestId - 1, requestId}
    /\ DOMAIN sent = 1..requestId

\* C25 -- One point per transaction: the returned sequence holds exactly one
\* AccumulationPoint for every distinct confirmed txid the history fetch
\* found, whatever the outcome of the raw-transaction fetches.
OnePointPerTransaction ==
    Reconstructed =>
        /\ Len(body.history) = Len(allHistoryItems)
        /\ { body.history[k].txHash : k \in 1..Len(body.history) }
             = { allHistoryItems[k].tx_hash : k \in 1..Len(allHistoryItems) }

\* Some obtained history lists txid, and none lists it with a height > 0.
OnlyUnconfirmed(txid) ==
    /\ "history" \in DOMAIN results
    /\ \E k \in 1..Len(results["history"]) :
          \E e \in Range(results["history"][k].ret.history) : e.tx_hash = txid
    /\ \A k \in 1..Len(results["history"]) : ~ListsConfirmed(k, txid)

\* C26 -- Unconfirmed entries: a history entry with blockHeight <= 0 never
\* produces a point and never causes a header or raw-transaction fetch; only
\* entries with height > 0 enter the deduplicated set.
UnconfirmedIgnored ==
    /\ \A k \in 1..Len(allHistoryItems) :
          /\ allHistoryItems[k].height > 0
          /\ \E j \in 1..Len(results["history"]) :
                ListsConfirmed(j, allHistoryItems[k].tx_hash)
    /\ "header" \in DOMAIN items =>
          \A k \in 1..Len(items["header"]) : items["header"][k] > 0
    /\ "tx" \in DOMAIN items =>
          \A k \in 1..Len(items["tx"]) :
              \E j \in 1..Len(results["history"]) :
                  ListsConfirmed(j, items["tx"][k])
    /\ \A id \in DOMAIN sent :
          /\ sent[id].method = "blockchain.block.header" => sent[id].params > 0
          /\ sent[id].method = "blockchain.transaction.get"
                => ~OnlyUnconfirmed(sent[id].params)
    /\ Reconstructed =>
          \A k \in 1..Len(body.history) :
              /\ body.history[k].blockHeight > 0
              /\ ~OnlyUnconfirmed(body.history[k].txHash)

\* The history of 101 lists T6 at height 0 next to the confirmed T2, the
\* history of 103 lists T7 at height -1: the timeline has a point for T2 and
\* none for T6 or T7, and neither was fetched.
UnconfirmedIgnoredWitness ==
    /\ Reconstructed
    /\ Len(scriptHashes) >= 3
    /\ \A k \in 1..3 : results["history"][k].ok
    /\ OnlyUnconfirmed(T6)
    /\ OnlyUnconfirmed(T7)
    /\ \E k \in 1..Len(body.history) : body.history[k].txHash = T2
    /\ \A k \in 1..Len(body.history) : body.history[k].txHash \notin {T6, T7}
    /\ \A id \in DOMAIN sent :
          sent[id].method = "blockchain.transaction.get"
              => sent[id].params \notin {T6, T7}

RECURSIVE Discovery(_)
Discovery(n) ==
    IF n = 0 THEN <<>>
    ELSE Discovery(n - 1)
         \o SelectSeq(results["history"][n].ret.history,
                      LAMBDA e : e.height > 0)

\* The position at which txid was first discovered.
FirstDiscovery(txid) ==
    LET d == Discovery(Len(results["history"]))
    IN  Min({ k \in 1..Len(d) : d[k].tx_hash = txid })

\* C28 -- Tie-breaking: two transactions with the same blockHeight appear in
\* the output in the order in which they were first discovered (script
\* hashes in request order, each history's entries in indexer order),
\* whatever the order in which the RPCs completed.
TieBreaking ==
    Reconstructed =>
        /\ \A k \in 1..Len(results["history"]) :
              results["history"][k].ret.scriptHash = scriptHashes[k]
        /\ \A j, k \in 1..Len(body.history) :
              (j < k /\ body.history[j].blockHeight = body.history[k].blockHeight)
              => FirstDiscovery(body.history[j].txHash)
                    < FirstDiscovery(body.history[k].txHash)

\* T2 and T3 are both at height 2.  The history of 102 lists T3 before T2,
\* but T2 was discovered first, through 101: the timeline has T2 before T3.
TieBreakingWitness ==
    /\ Reconstructed
    /\ scriptHashes[1] = 101
    /\ ListsConfirmed(1, T2)
    /\ \E n \in 2..Len(scriptHashes) :
          /\ scriptHashes[n] = 102
          /\ results["history"][n].ok
          /\ results["history"][n].ret.history[2].tx_hash = T3
          /\ results["history"][n].ret.history[3].tx_hash = T2
    /\ \E j, k \in 1..Len(body.history) :
          /\ j < k
          /\ body.history[j].txHash = T2 /\ body.history[k].txHash = T3
          /\ body.history[j].blockHeight = body.history[k].blockHeight

\* The history of 101 could not be fetched, T3 and T2 were both discovered
\* through 102, T3 first: the timeline has T3 before T2.
TieBreakingIndexerOrder ==
    /\ Reconstructed
    /\ ~results["history"][1].ok
    /\ \E j, k \in 1..Len(body.history) :
          /\ j < k
          /\ body.history[j].txHash = T3 /\ body.history[k].txHash = T2

\* The previous output of ref could not be obtained: its transaction was not
\* fetched or decoded, or it has no output at that index.
Unresolvable(ref) ==
    \/ ref.txHash \notin DOMAIN prevoutTxCache
    \/ ref.voutIndex >= Len(prevoutTxCache[ref.txHash].outs)

\* What the previous output of ref paid to the script hashes ours on the
\* chain; 0 if the chain has no such output.
ChainValue(ref, ours) ==
    LET outs == ChainTx(ref.txHash).outs
    IN  IF /\ ref.txHash \in KnownTx
           /\ ref.voutIndex < Len(outs)
           /\ computeScriptHash(outs[ref.voutIndex + 1].script) \in ours
        THEN outs[ref.voutIndex + 1].value
        ELSE 0

\* The owned value that the unresolvable inputs of txid spend on the chain.
Unsubtracted(txid, ours) ==
    SumSeq([r \in 1..Len(prevoutRefs) |->
              IF prevoutRefs[r].spentInTx = txid /\ Unresolvable(prevoutRefs[r])
              THEN ChainValue(prevoutRefs[r], ours) ELSE 0])

\* C29 -- Unresolvable prevout: an input whose previous output cannot be
\* obtained subtracts nothing from the delta of its transaction, leaves the
\* delta of every other transaction at its net value, and does not make the
\* reconstruction fail.
UnresolvablePrevout ==
    (/\ op = "history" /\ pc = "done"
     /\ \E r \in 1..Len(prevoutRefs) : Unresolvable(prevoutRefs[r]))
    => /\ status = 200
       /\ Len(body.history) = Len(txCache)
       /\ \A k \in 1..Len(body.history) :
             body.history[k].deltaSats
                 = OwnedOutputs(body.history[k].txHash, Range(scriptHashes))
                   - OwnedSpent(body.history[k].txHash, Range(scriptHashes),
                                KnownTx)
                   + Unsubtracted(body.history[k].txHash, Range(scriptHashes))

\* T1 could be fetched neither as a transaction nor as a previous
\* transaction: T2, which spends its owned 625,000,000, keeps the
\* 300,005,000 it receives, and T3 still carries its own net of -2,000,
\* with X1:3, an index X1 does not have, among its inputs.
UnresolvablePrevoutWitness ==
    /\ Reconstructed
    /\ {101, 102} \subseteq Range(scriptHashes)
    /\ T1 \notin DOMAIN prevoutTxCache
    /\ X1 \in DOMAIN prevoutTxCache
    /\ \E r \in 1..Len(prevoutRefs) :
          /\ prevoutRefs[r].txHash = X1 /\ prevoutRefs[r].voutIndex = 3
          /\ Unresolvable(prevoutRefs[r])
    /\ Unsubtracted(T2, Range(scriptHashes)) = 625000000
    /\ \E k \in 1..Len(body.history) :
          body.history[k].txHash = T2 /\ body.history[k].deltaSats = 300005000
    /\ \E k \in 1..Len(body.history) :
          body.history[k].txHash = T3 /\ body.history[k].deltaSats = -2000

\* C30 -- Observability: every input whose previous output could not be
\* obtained is recorded where it can be observed after the run: a console
\* line names its previous transaction, or the response carries something
\* besides the timeline.
UnresolvedObservable ==
    (op = "history" /\ pc = "done") =>
        \A r \in 1..Len(prevoutRefs) :
            Unresolvable(prevoutRefs[r])
            => \/ \E e \in console : e.txHash = prevoutRefs[r].txHash
               \/ DOMAIN body # {"history"}

\* The ids of the well-formed responses among the lines.
ResponseIds(lines) ==
    { JSONParse(lines[k]).id :
        k \in { j \in 1..Len(lines) :
                  lines[j] # <<>> /\ ~JSONParse(lines[j]).throws } }

\* C24 -- Malformed lines: a received line that is not valid JSON, or is
\* valid JSON without a usable id, settles no pending request and does not
\* stop the read loop: in every turn of the 'data' handler the pending
\* requests that are settled are exactly those named by a well-formed
\* response among the complete lines, wherever the malformed lines stand,
\* each settled as its response says, and the text after the last newline
\* is kept for the next chunk.
MalformedLines ==
    [][ received' # <<>> =>
          LET segments == Split(buffer \o received')
              lines == SubSeq(segments, 1, Len(segments) - 1)
              settled == (DOMAIN pendingRequests) \ (DOMAIN pendingRequests')
          IN  /\ settled = (DOMAIN pendingRequests) \cap ResponseIds(lines)
              /\ buffer' = segments[Len(segments)]
              /\ \A id \in settled :
                    LET c == pendingRequests[id]
                    IN  c \in DOMAIN outcome' =>
                          \E k \in 1..Len(lines) :
                             /\ lines[k] # <<>>
                             /\ JSONParse(lines[k]).id = id
                             /\ outcome'[c] = (IF JSONParse(lines[k]).kind = "error"
                                               THEN "rpcerror" ELSE "result")
      ]_vars

\* A chunk began with a line that is not JSON and went on with the response
\* to the get_history request: the response was delivered and the handler
\* went on to the header fetch.
MalformedLinesWitness ==
    /\ Len(received) = 4
    /\ received[1] = Text("junk", 0, "text")
    /\ received[3] = Text("whole", 2, "result")
    /\ 2 \notin DOMAIN pendingRequests
    /\ results["history"][1].ok
    /\ phase = "header"
    /\ DOMAIN pendingRequests = {3}

\* A line that did not parse was logged in an earlier turn, and the response
\* that arrived cut in two, its first part before and its second part in
\* this chunk, was delivered.
MalformedThenLaterChunk ==
    /\ \E e \in console : e.line = 57
    /\ Len(received) = 2
    /\ received[1] = Text("tail", 2, "result")
    /\ 2 \notin DOMAIN pendingRequests
    /\ results["history"][1].ok
    /\ phase = "header"

\* C22 -- Share expiry: getShareRecord never returns a record whose
\* expiresAt is less than or equal to the current time, and every stored
\* record (in the store, and as returned by createShareRecord) has expiresAt
\* at most seven days after its createdAt, whatever ttlMs was passed to
\* createShareRecord.
ShareExpiry ==
    /\ returned.record # <<>> => returned.record[1].expiresAt > clock
    /\ \A k \in 1..Len(shareStore) :
          shareStore[k].expiresAt <= shareStore[k].createdAt + 7 * Day
    /\ created.record # <<>> =>
          created.record[1].expiresAt <= created.record[1].createdAt + 7 * Day

\* createShareRecord was passed a ttlMs of more than seven days, and the
\* record it stored expires seven days after its creation.
ShareExpiryWitness ==
    /\ created.ttlMs # <<>>
    /\ created.ttlMs[1] > 7 * Day
    /\ created.record # <<>>
    /\ \E k \in 1..Len(shareStore) :
          /\ shareStore[k] = created.record[1]
          /\ shareStore[k].expiresAt = shareStore[k].createdAt + 7 * Day

\* getShareRecord returned a record on the last day before its expiry.
ShareExpiryLastDay ==
    /\ returned.record # <<>>
    /\ returned.record[1].expiresAt = clock + Day

\* What the server is given with a request: the segments of its path, its
\* query string and the fields of its body.
Visible(req) ==
    Range(req.path) \cup Range(req.query)
        \cup { req.body[f] : f \in DOMAIN req.body }

\* The numbers a share payload holds.
Numbers(payload) ==
    {payload.version, payload.createdAt, payload.settings.port}
        \cup Range(payload.scriptHashes)

\* A share payload of the fields of SharedPortfolioPayloadV1, holding neither
\* the XPUB nor an address of the portfolio it was made from.
Discreet(payload) ==
    /\ DOMAIN payload =
          {"version", "createdAt", "scriptHashes", "settings", "preferences"}
    /\ DOMAIN payload.settings = {"host", "port", "useSsl"}
    /\ DOMAIN payload.preferences =
          {"showEuro", "showSats", "hideEmpty", "showChart"}
    /\ xpubInput \notin Numbers(payload)
    /\ \A k \in 1..Len(derivedAddresses) :
          derivedAddresses[k].address \notin Numbers(payload)

\* C21 -- Share-link confidentiality: no request sent to the server, when a
\* link is created or when it is opened, contains a share key; every record
\* of the server's share store holds the id, the version, the IV, the
\* ciphertext and the two timestamps, and nothing else; the plaintext the
\* page encrypts, and the plaintext the share page recovers, hold script
\* hashes, connection settings and preferences, and neither the XPUB nor an
\* address.
ShareConfidential ==
    /\ \A t \in Visible(shareRequest) : t[1] # "k"
    /\ \A k \in 1..Len(shareStore) :
          /\ DOMAIN shareStore[k] =
                {"id", "v", "iv", "ciphertext", "createdAt", "expiresAt"}
          /\ shareStore[k].id[1] = "id"
          /\ shareStore[k].v[1] = "v"
          /\ shareStore[k].iv[1] = "iv"
          /\ shareStore[k].ciphertext[1] = "ct"
    /\ (sharePc = "posting" /\ shareRequest.method = "POST") =>
          Discreet(shareRequest.body.ciphertext[2].plaintext)
    /\ sessionStorage # <<>> => Discreet(sessionStorage[1])

\* The share page, opened with the key in the fragment of its location, has
\* its request for the stored record under way, the record's plaintext
\* holding a script hash of the portfolio.
ShareConfidentialWitness ==
    /\ openPc = "fetching"
    /\ shareRequest.method = "GET"
    /\ location.fragment # <<>>
    /\ location.fragment[1] \in Keys
    /\ \E k \in 1..Len(shareStore) :
          /\ shareStore[k].id = shareRequest.path[3]
          /\ shareStore[k].ciphertext[2].key = location.fragment[1]
          /\ shareStore[k].ciphertext[2].plaintext.scriptHashes # <<>>

\* The share page has recovered the payload and dropped the key from its
\* location.
ShareOpened ==
    /\ openPc = "opened"
    /\ sessionStorage # <<>>
    /\ location.fragment = <<>>

\* The ids of the blockchain.block.header requests sent for height h.
HeaderRequests(h) ==
    { id \in DOMAIN sent :
        sent[id].method = "blockchain.block.header" /\ sent[id].params = h }

\* The heights of the confirmed transactions found in step 1.
ConfirmedHeights ==
    { allHistoryItems[k].height : k \in 1..Len(allHistoryItems) }

\* Whether the header of height h was fetched.
HeaderFetched(h) ==
    \E k \in 1..Len(results["header"]) :
        /\ items["header"][k] = h
        /\ results["header"][k].ok

\* C31 -- Timestamp degradation: no block height is ever requested twice;
\* in a history that was built, every distinct confirmed height was
\* requested exactly once and nothing else was, every point of a height
\* whose header fetch failed has timestamp 0, and every point of a height
\* whose header was fetched has the timestamp of that header.
TimestampDegradation ==
    /\ \A id \in DOMAIN sent :
          sent[id].method = "blockchain.block.header" =>
              /\ sent[id].params \in ConfirmedHeights
              /\ HeaderRequests(sent[id].params) = {id}
    /\ (op = "history" /\ pc = "done" /\ status = 200
            /\ Len(allHistoryItems) > 0) =>
          /\ \A h \in ConfirmedHeights : Cardinality(HeaderRequests(h)) = 1
          /\ \A p \in 1..Len(body.history) :
                body.history[p].timestamp =
                    IF HeaderFetched(body.history[p].blockHeight)
                    THEN BlockTime(body.history[p].blockHeight)
                    ELSE 0

\* A history with two points of a height whose header fetch failed, both
\* with timestamp 0, and a point of another height with its block time.
TimestampDegradationWitness ==
    /\ op = "history" /\ pc = "done" /\ status = 200
    /\ Len(allHistoryItems) > 0
    /\ \E p, q, r \in 1..Len(body.history) :
          /\ p # q
          /\ body.history[p].blockHeight = body.history[q].blockHeight
          /\ ~HeaderFetched(body.history[p].blockHeight)
          /\ body.history[p].timestamp = 0
          /\ body.history[q].timestamp = 0
          /\ body.history[r].blockHeight # body.history[p].blockHeight
          /\ HeaderFetched(body.history[r].blockHeight)
          /\ body.history[r].timestamp = BlockTime(body.history[r].blockHeight)

\* C32 -- Session connection lifecycle: a balance or history operation
\* constructs its connection once and never a second one; every request is
\* written while the operation runs on that connection; once the operation
\* has returned, on whatever path, a connection that was constructed is no
\* longer connecting or open; and nothing is sent on a connection that was
\* closed or after the operation has returned.
ConnectionLifecycle ==
    [][ /\ (socket' # socket /\ socket' = "connecting") =>
              (socket = "none" /\ pc = "start" /\ requestId = 0)
        /\ sent' # sent =>
              (socket' \in {"open", "errored", "ended"} /\ pc' # "done")
        /\ (pc' = "done" /\ socket' # "none") =>
              socket' \in {"destroyed", "errored", "ended"}
        /\ (pc = "done" \/ socket = "destroyed") =>
              (sent' = sent /\ requestId' = requestId /\ socket' = socket)
      ]_vars

\* The history operation has returned early with an empty history, after
\* the handshake and the history requests, and its connection is destroyed.
ConnectionLifecycleWitness ==
    /\ op = "history" /\ pc = "done" /\ status = 200
    /\ body = [history |-> <<>>]
    /\ requestId > 1
    /\ socket = "destroyed"

\* The operation has returned an error after its handshake failed, and its
\* connection is destroyed.
ConnectionClosedAfterHandshakeFailure ==
    /\ pc = "done" /\ status = 500
    /\ requestId = 1
    /\ socket = "destroyed"

\* C33 -- Closure releases pending requests: in the step in which the owner
\* closes the transport (ElectrumClient.disconnect, ElectrumConnection.close)
\* every call that was pending is settled with a rejection, and no request
\* timer is left to fire later.
ClosureReleasesPending ==
    [][ /\ (clientWs = "socket" /\ clientWs' = "null") =>
              /\ \A id \in DOMAIN clientCalls :
                    clientCalls[id] = "pending" => clientCalls'[id] = "closed"
              /\ clientTimers' = {}
        /\ (socket # "destroyed" /\ socket' = "destroyed") =>
              /\ \A c \in DOMAIN outcome' : outcome'[c] # "pending"
              /\ pendingRequests' = EmptyMap
              /\ timers' = EmptyMap
      ]_vars

\* A call that disconnect() left pending has been settled by its own
\* request timer, after the socket had closed.
AbandonedCallTimedOut ==
    /\ clientWs = "null"
    /\ clientSocket = "closed"
    /\ \E id \in DOMAIN clientCalls : clientCalls[id] = "timeout"

\* The ways of cutting a chunk in two: between two of its pieces, or inside
\* the text of a response.
Cuts(chunk) ==
    { <<SubSeq(chunk, 1, k), SubSeq(chunk, k + 1, Len(chunk))>> :
        k \in 1..(Len(chunk) - 1) }
    \cup
    { <<SubSeq(chunk, 1, k - 1)
            \o <<Text("head", chunk[k].id, chunk[k].kind)>>,
        <<Text("tail", chunk[k].id, chunk[k].kind)>>
            \o SubSeq(chunk, k + 1, Len(chunk))>> :
        k \in { j \in 1..Len(chunk) : chunk[j].t = "whole" } }

\* The ids of the responses begun in a buffer.
BegunIn(text) == { text[k].id : k \in 1..Len(text) } \ {0}

\* C34 -- Framing is independent of chunk boundaries: had the chunk a 'data'
\* event brought arrived as two chunks, cut at any place (between two lines,
\* before or after a newline, inside a response), the two events would have
\* left the connection and the operation in the same state as the one
\* event did: the same callers settled with the same responses in the same
\* order, once each; and no caller is settled by a line whose newline has
\* not arrived.
FramingIndependent ==
    [][ received' # <<>> =>
          /\ \A cut \in Cuts(received') :
                Resume(OnChunk(Resume(OnChunk(Cur, cut[1])), cut[2])) = Cur'
          /\ \A id \in BegunIn(buffer') :
                id \in DOMAIN pendingRequests => id \in DOMAIN pendingRequests'
      ]_vars

\* One chunk has brought the responses to two requests, the later request
\* first, and both callers are settled by their own response.
FramingIndependentWitness ==
    /\ Len(received) = 4
    /\ received[1].t = "whole" /\ received[3].t = "whole"
    /\ received[1].id > received[3].id
    /\ \E k \in 1..Len(results["balance"]) : results["balance"][k].ok
    /\ pc = "done" /\ status = 200
    /\ Len(body.addresses) = 2
    /\ \A k \in 1..2 :
          body.addresses[k].balance =
              ServerBalance(scriptHashes[k]).confirmed
                  + ServerBalance(scriptHashes[k]).unconfirmed

\* A chunk has brought the rest of a response begun in the buffer, a whole
\* line, and nothing after its last newline.
FramingAcrossChunks ==
    /\ Len(received) = 4
    /\ received[1].t = "tail"
    /\ received[3].t = "whole"
    /\ buffer = <<>>

\* C35 -- Share availability: a record returned by createShareRecord stays
\* retrievable through getShareRecord at every time before its expiresAt,
\* for any number of share records created by others in between: the record
\* createShareRecord returns can be read back at once, and every record that
\* can be read before a call of the store and has not expired after it can
\* still be read after it.
ShareAvailability ==
    [][ /\ created'.record # <<>> =>
              getShareRecord(shareStore', created'.record[1].id, clock', clock').record
                  = created'.record
        /\ \A k \in 1..Len(shareStore) :
              shareStore[k].expiresAt > clock' =>
                  getShareRecord(shareStore', shareStore[k].id, clock', clock').record
                      = << shareStore[k] >>
      ]_vars

\* A record that had not expired was dropped from the store by the creation
\* of another one.
ShareEvicted ==
    /\ created.record # <<>>
    /\ created.record[1].expiresAt > clock
    /\ Len(shareStore) = MAX_RECORDS
    /\ \A k \in 1..Len(shareStore) : shareStore[k].id # created.record[1].id

\* The chunk holds nothing but responses to requests that are not pending.
LateOnly(chunk) ==
    /\ \E k \in 1..Len(chunk) : chunk[k].t \in {"whole", "tail"}
    /\ \A k \in 1..Len(chunk) :
          \/ chunk[k].t = "nl"
          \/ /\ chunk[k].t \in {"whole", "tail"}
             /\ chunk[k].id \notin DOMAIN pendingRequests

\* C36 -- Exactly-once settlement: every call is settled at most once, by
\* exactly one of response, timeout or connection error; a response that
\* arrives after the call timed out is ignored, a timer never fires for a
\* call already settled by a response or connection error, and a response
\* with an id that is not pending changes no state.
ExactlyOnceSettlement ==
    [][ /\ \A c \in DOMAIN outcome :
              (c \in DOMAIN outcome' /\ rid'[c] = rid[c]) =>
                  IF outcome[c] # "pending"
                  THEN outcome'[c] = outcome[c] /\ got'[c] = got[c]
                  ELSE CASE outcome'[c] = "pending" -> TRUE
                         [] outcome'[c] = "timeout" ->
                                fired' = rid[c] /\ got'[c] = 0
                         [] outcome'[c] \in {"result", "rpcerror"} ->
                                /\ fired' = 0 /\ got'[c] = rid[c]
                                /\ socket = "open"
                                /\ \E k \in 1..Len(received') :
                                      /\ received'[k].t \in {"whole", "tail"}
                                      /\ received'[k].id = rid[c]
                         [] outcome'[c] = "connerror" ->
                                /\ fired' = 0 /\ got'[c] = 0
                                /\ socket \in {"connecting", "open"}
                                /\ socket' \in {"errored", "destroyed"}
                         [] OTHER -> FALSE
        /\ fired' # 0 =>
              /\ fired' \in DOMAIN timers
              /\ fired' \in DOMAIN pendingRequests
              /\ timers[fired'] = pendingRequests[fired']
              /\ outcome[timers[fired']] = "pending"
              /\ rid[timers[fired']] = fired'
              /\ timers[fired'] \in DOMAIN outcome' =>
                    outcome'[timers[fired']] = "timeout"
        /\ LateOnly(received') =>
              Cur' = [Cur EXCEPT !.unanswered = unanswered', !.buffer = <<>>]
      ]_vars

\* The header request timed out and the handler went on to the transaction
\* fetch; the response to the header request then arrived, alone in its
\* chunk, and changed nothing: the header fetch is still recorded as failed
\* and the transaction request is still pending.
ExactlyOnceSettlementWitness ==
    /\ Len(received) = 2
    /\ received[1].t = "whole"
    /\ received[1].id \in DOMAIN sent
    /\ sent[received[1].id].method = Method("header")
    /\ phase = "tx"
    /\ pc = "fanout"
    /\ ~results["header"][1].ok
    /\ \E id \in DOMAIN pendingRequests :
          /\ id > received[1].id
          /\ outcome[pendingRequests[id]] = "pending"
    /\ socket = "open"

\* The handler of a balance or history operation is running.
Running == pc \in {"start", "connect", "handshake", "fanout", "delay"}

\* A call has been issued and is not settled.
CallPending ==
    \/ pendingRequests # EmptyMap
    \/ \E c \in DOMAIN outcome : outcome[c] = "pending"

\* No call is unsettled: each call that was issued has ended as a result, an
\* RPC error, a connection error or a timeout.
CallsSettled ==
    /\ pendingRequests = EmptyMap
    /\ \A c \in DOMAIN outcome :
          outcome[c] \in {"result", "rpcerror", "connerror", "timeout"}

\* The steps the fairness conditions of LiveSpec name are the steps of
\* Timeout and of Delay.
FairStepsAreTimers ==
    [][ /\ (TimerFires /\ fired' # fired) <=> Timeout
        /\ (PacingTimerFires /\ pc' # pc) <=> Delay
      ]_vars

\* C37 -- Eventual settlement and termination: under fair firing of timers,
\* every issued call is eventually settled (result, RPC error, connection
\* error or timeout) even if the indexer never answers, and therefore every
\* balance and history operation eventually returns a response to its
\* caller.  Request ids are never given out twice, so a state in which no
\* call is pending settles every call issued before it.
EventualSettlement ==
    /\ CallPending ~> CallsSettled
    /\ Running ~> (pc = "done" /\ status # 0)

\* The indexer answered the handshake and nothing after it: the operation
\* has returned its response, the last call having ended by its timeout.
EventualSettlementWitness ==
    /\ pc = "done"
    /\ status # 0
    /\ HS \in DOMAIN got
    /\ got[HS] = rid[HS]
    /\ requestId > 1
    /\ \A c \in DOMAIN outcome : c # HS => outcome[c] = "timeout"
    /\ fired = requestId
    /\ CallsSettled

\* C38 -- Price feed stays disconnected: after KrakenPriceService.disconnect()
\* returns, the service opens no new WebSocket and has no reconnect timer and
\* no rate-refresh interval active, for every later order of socket close
\* and error events, until connect() is called again.
FeedStaysDisconnected ==
    [][ feedStopped' =>
          /\ ~reconnectTimeout'
          /\ liveRateIntervals' = {}
          /\ feedStopped => Len(feedSockets') = Len(feedSockets)
      ]_vars

\* The service made a WebSocket after disconnect() had returned and before
\* the page called connect() again.
FeedReconnected ==
    /\ feedStopped
    /\ feedWs # 0
    /\ feedSockets[feedWs] \in {"connecting", "open"}

\* C39 -- Disconnect clears the page state for good: after the page's
\* disconnect() has run, btcBalance, addressBalances and historyData stay
\* empty/zero until the next connect, even when a balance or history fetch
\* that was started before the disconnect completes afterwards.
DisconnectClearsPage ==
    disconnected =>
        /\ btcBalance = 0
        /\ pageBalances = <<>>
        /\ historyData = <<>>

\* C40 -- No leaked refresh timer: at most one periodic balance-refresh
\* interval and at most one price subscription exist at any time, and none
\* exists while the page is disconnected, for every interleaving of
\* disconnect() with a connectAndLoad() that is still awaiting the
\* price-feed connection.
NoLeakedRefreshTimer ==
    /\ Cardinality(liveRefreshIntervals) <= 1
    /\ callbacks <= 1
    /\ ~isConnected => (liveRefreshIntervals = {} /\ callbacks = 0)

====
